---- MODULE Spec2Model ----
(***************************************************************************)
(* The prescription engine of the workout-plan application:               *)
(* calculatePrescriptionForWeek and formatExerciseTarget (utils).         *)
(*                                                                         *)
(* Strings that the code takes apart are modelled by what they are made   *)
(* of.  An exercise name or a delta key is the sequence of its            *)
(* underscore-free tokens ("push_up_reps" is <<"push","up","reps">>), so   *)
(* that split('_'), lastIndexOf('_') and endsWith('_x') are computed as    *)
(* the code computes them.  A delta value and a formatted target are      *)
(* sequences of characters, so that parseInt and the template strings are *)
(* computed and not assumed.                                               *)
(*                                                                         *)
(* Objects live on two heaps (items, day mappings) and are known by their *)
(* address, so that aliasing between the stored program and a returned    *)
(* prescription can be expressed.  Arrays are never updated in place by   *)
(* this code and are kept as values inside the day mapping.               *)
(***************************************************************************)
EXTENDS Integers, Sequences, FiniteSets, TLC

\* Bounds of the model.
MaxWeek == 3
MaxEntries == 2

(***************************************************************************)
(* JavaScript values of the numeric fields.                                *)
(***************************************************************************)
Undef == [t |-> "undefined", v |-> 0]
NaN == [t |-> "NaN", v |-> 0]
Null == [t |-> "null", v |-> 0]
Num(n) == [t |-> "number", v |-> n]

\* x || 0 : undefined, null, NaN and 0 are falsy.
OrZero(x) == IF x.t = "number" THEN x ELSE Num(0)

\* ToNumber, as applied by + and += to a non-string operand.
ToNumber(x) == IF x.t = "null" THEN Num(0) ELSE IF x.t = "undefined" THEN NaN ELSE x

\* a + b on numbers: NaN is absorbing.
JsAdd(a, b) ==
  LET x == ToNumber(a)
      y == ToNumber(b)
  IN IF x.t = "NaN" \/ y.t = "NaN" THEN NaN ELSE Num(x.v + y.v)

(***************************************************************************)
(* parseInt(string) without radix, on strings that do not start with 0x:  *)
(* leading white space, an optional sign, then the longest run of decimal *)
(* digits; NaN when there is no digit.  It never throws.                  *)
(***************************************************************************)
DigitChars == <<"0", "1", "2", "3", "4", "5", "6", "7", "8", "9">>
IsDigit(c) == \E i \in 1..10 : DigitChars[i] = c
DigitVal(c) == (CHOOSE i \in 1..10 : DigitChars[i] = c) - 1

RECURSIVE SkipSpaces(_, _)
SkipSpaces(s, i) ==
  IF i <= Len(s) /\ s[i] = " " THEN SkipSpaces(s, i + 1) ELSE i

RECURSIVE ParseDigits(_, _, _, _)
ParseDigits(s, i, acc, seen) ==
  IF i <= Len(s) /\ IsDigit(s[i])
  THEN ParseDigits(s, i + 1, 10 * acc + DigitVal(s[i]), TRUE)
  ELSE [seen |-> seen, v |-> acc]

parseInt(s) ==
  LET i == SkipSpaces(s, 1)
      signed == i <= Len(s) /\ s[i] \in {"+", "-"}
      neg == signed /\ s[i] = "-"
      r == ParseDigits(s, IF signed THEN i + 1 ELSE i, 0, FALSE)
  IN IF r.seen THEN Num(IF neg THEN 0 - r.v ELSE r.v) ELSE NaN

(***************************************************************************)
(* String operations on delta keys (token sequences).                     *)
(***************************************************************************)
\* deltaKey.endsWith('_' + suffix joined by '_')
endsWith(deltaKey, suffix) ==
  /\ Len(deltaKey) > Len(suffix)
  /\ SubSeq(deltaKey, Len(deltaKey) - Len(suffix) + 1, Len(deltaKey)) = suffix

\* deltaKey.substring(0, deltaKey.lastIndexOf('_')); lastIndexOf gives -1
\* for a key without underscore and substring(0, -1) is the empty string.
ExerciseNameFirstToken(deltaKey) == <<deltaKey[1]>>
ExerciseName(deltaKey) ==
  IF Len(deltaKey) = 1 THEN <<"">> ELSE SubSeq(deltaKey, 1, Len(deltaKey) - 1)

\* const [exerciseName, field] = deltaKey.split('_')  (the earlier utils.ts)
ExerciseNameSplit(deltaKey) == <<deltaKey[1]>>

(***************************************************************************)
(* PrescriptionItem (types.ts).  An absent field holds Undef.             *)
(***************************************************************************)
NumFields ==
  {"sets", "reps", "hold_seconds", "reps_each_side", "hold_seconds_each_side",
   "weight_kg", "distance_m"}

NoItem ==
  [name |-> <<"">>, sets |-> Undef, reps |-> Undef, hold_seconds |-> Undef,
   reps_each_side |-> Undef, hold_seconds_each_side |-> Undef,
   weight_kg |-> Undef, distance_m |-> Undef]

Mk(name, sets, field, n) ==
  [[NoItem EXCEPT !.name = name, !.sets = Num(sets)] EXCEPT ![field] = Num(n)]

(***************************************************************************)
(* The body of the for (deltaKey in deltas) loop.                          *)
(***************************************************************************)
\* The else-if chain of endsWith tests, in the order of the code.
FieldOfKey(deltaKey) ==
  IF endsWith(deltaKey, <<"reps">>) THEN "reps"
  ELSE IF endsWith(deltaKey, <<"hold", "seconds">>) THEN "hold_seconds"
  ELSE IF endsWith(deltaKey, <<"reps", "each", "side">>) THEN "reps_each_side"
  ELSE IF endsWith(deltaKey, <<"hold", "seconds", "each", "side">>)
       THEN "hold_seconds_each_side"
  ELSE IF endsWith(deltaKey, <<"sets">>) THEN "sets"
  ELSE "none"

\* newItem.f = (newItem.f || 0) + deltaValue
AddDelta(newItem, f, deltaValue) ==
  [newItem EXCEPT ![f] = JsAdd(OrZero(@), deltaValue)]

\* (variant of ApplyDeltaKey that compares by prefix:
\*  if (newItem.name.startsWith(exerciseName)))
ApplyDeltaKeyStartsWith(newItem, deltaKey, value) ==
  LET exerciseName == ExerciseName(deltaKey)
  IN IF Len(newItem.name) >= Len(exerciseName)
        /\ SubSeq(newItem.name, 1, Len(exerciseName)) = exerciseName
     THEN LET f == FieldOfKey(deltaKey)
          IN IF f = "none" THEN newItem ELSE AddDelta(newItem, f, parseInt(value))
     ELSE newItem

\* One iteration for one key (the current utils).
ApplyDeltaKey(newItem, deltaKey, value) ==
  IF newItem.name = ExerciseName(deltaKey)
  THEN LET deltaValue == parseInt(value)
           f == FieldOfKey(deltaKey)
       IN IF f = "none" THEN newItem ELSE AddDelta(newItem, f, deltaValue)
  ELSE newItem

\* One iteration for one key (the earlier utils.ts): the name is the first
\* token, only reps and hold_seconds are handled, and only when present.
ApplyDeltaKeySplit(newItem, deltaKey, value) ==
  IF newItem.name = ExerciseNameSplit(deltaKey)
  THEN LET deltaValue == parseInt(value)
       IN IF endsWith(deltaKey, <<"reps">>) /\ newItem.reps.t # "undefined"
          THEN [newItem EXCEPT !.reps = JsAdd(@, deltaValue)]
          ELSE IF endsWith(deltaKey, <<"hold", "seconds">>)
                  /\ newItem.hold_seconds.t # "undefined"
          THEN [newItem EXCEPT !.hold_seconds = JsAdd(@, deltaValue)]
          ELSE newItem
  ELSE newItem

\* The callback of map: a copy of the item, then every key of deltas in the
\* object's key order.  deltas is the sequence of its [key, value] pairs.
RECURSIVE MapItem(_, _, _, _)
MapItem(variant, item, deltas, k) ==
  IF k > Len(deltas) THEN item
  ELSE MapItem(variant,
               IF variant = "utils.ts"
               THEN ApplyDeltaKeySplit(item, deltas[k].key, deltas[k].value)
               ELSE ApplyDeltaKey(item, deltas[k].key, deltas[k].value),
               deltas, k + 1)

\* JSON.parse(JSON.stringify(item)): NaN is written as null, an undefined
\* field is dropped, numbers and the name are kept.
JsonItem(item) ==
  [f \in DOMAIN item |->
     IF f = "name" THEN item[f]
     ELSE IF item[f].t = "NaN" THEN Null ELSE item[f]]

(***************************************************************************)
(* Heaps.  A day mapping is a function from its day names to sequences of *)
(* item addresses; DayOrder is the key order used when objects are built. *)
(***************************************************************************)
DayOrder == <<"monday", "friday">>

\* Builds the objects of a day mapping given by value (day -> item values)
\* at the end of the item heap.
RECURSIVE AllocDays(_, _, _, _)
AllocDays(items, dpv, k, acc) ==
  IF k > Len(DayOrder) THEN [items |-> items, map |-> acc]
  ELSE LET d == DayOrder[k]
       IN IF d \notin DOMAIN dpv THEN AllocDays(items, dpv, k + 1, acc)
          ELSE LET n == Len(items)
                   addrs == [j \in 1..Len(dpv[d]) |-> n + j]
               IN AllocDays(items \o dpv[d], dpv, k + 1, acc @@ (d :> addrs))

\* The value of the day mapping at address a.
DayMapValue(items, maps, a) ==
  [d \in DOMAIN maps[a] |-> [j \in 1..Len(maps[a][d]) |-> items[maps[a][d][j]]]]

(***************************************************************************)
(* formatExerciseTarget.  A template literal `${x}` writes a number in     *)
(* decimal, NaN as "NaN" and null as "null".                               *)
(***************************************************************************)
RECURSIVE Digits(_)
Digits(n) ==
  IF n < 10 THEN <<DigitChars[n + 1]>>
  ELSE Digits(n \div 10) \o <<DigitChars[(n % 10) + 1]>>

TemplateString(x) ==
  IF x.t = "NaN" THEN <<"N", "a", "N">>
  ELSE IF x.t = "null" THEN <<"n", "u", "l", "l">>
  ELSE IF x.t = "undefined" THEN <<"u", "n", "d", "e", "f", "i", "n", "e", "d">>
  ELSE IF x.v < 0 THEN <<"-">> \o Digits(0 - x.v)
  ELSE Digits(x.v)

EachSuffix == <<" ", "(", "e", "a", "c", "h", ")">>

\* (variant of formatExerciseTarget testing truthiness: if (ex.reps) ...)
IsTruthy(x) == x.t = "number" /\ x.v # 0
formatTruthyTarget(item) ==
  IF IsTruthy(item.reps) THEN TemplateString(item.reps)
  ELSE IF IsTruthy(item.reps_each_side)
       THEN TemplateString(item.reps_each_side) \o EachSuffix
  ELSE IF IsTruthy(item.hold_seconds)
       THEN TemplateString(item.hold_seconds) \o <<"s">>
  ELSE IF IsTruthy(item.hold_seconds_each_side)
       THEN TemplateString(item.hold_seconds_each_side) \o <<"s">> \o EachSuffix
  ELSE <<"0">>

formatExerciseTarget(item) ==
  IF item.reps.t # "undefined" THEN TemplateString(item.reps)
  ELSE IF item.reps_each_side.t # "undefined"
       THEN TemplateString(item.reps_each_side) \o EachSuffix
  ELSE IF item.hold_seconds.t # "undefined"
       THEN TemplateString(item.hold_seconds) \o <<"s">>
  ELSE IF item.hold_seconds_each_side.t # "undefined"
       THEN TemplateString(item.hold_seconds_each_side) \o <<"s">> \o EachSuffix
  ELSE <<"0">>

\* Items handed to the formatter: every combination of the four target fields.
TargetValues == {Undef, Num(0), Num(12), Num(20)}
FormatItems ==
  { [NoItem EXCEPT !.name = <<"plank">>, !.sets = Num(3), !.reps = a,
                   !.reps_each_side = b, !.hold_seconds = c,
                   !.hold_seconds_each_side = d] :
    a \in TargetValues, b \in TargetValues, c \in TargetValues, d \in TargetValues }

(***************************************************************************)
(* The imported program.  A WeekPrescription given by value is            *)
(* [week, hasDP, dp, hasDelta, deltas]: dp maps day names to sequences of *)
(* item values, deltas is the sequence of the [key, value] pairs of       *)
(* delta_from_previous_week.  On the heap day_prescription is the address *)
(* of the day mapping, 0 when the entry has none.                          *)
(***************************************************************************)
Plank == Mk(<<"plank">>, 3, "hold_seconds", 30)
PushUp == Mk(<<"push", "up">>, 3, "reps", 10)
Push == [Mk(<<"push">>, 2, "reps", 5) EXCEPT !.weight_kg = Num(20)]
PlankHold == [NoItem EXCEPT !.name = <<"plank", "hold">>, !.sets = Num(1)]
Lunge == Mk(<<"lunge">>, 2, "reps_each_side", 8)

SnapA == ("monday" :> <<Plank, PushUp>>)
SnapB == ("monday" :> <<Push, PushUp>>) @@ ("friday" :> <<PlankHold, Plank, Lunge>>)

DeltaA ==
  <<[key |-> <<"plank", "hold", "seconds">>, value |-> <<"+", "1", "0">>],
    [key |-> <<"push", "reps">>, value |-> <<"+", "1">>]>>
DeltaB ==
  <<[key |-> <<"push", "up", "reps">>, value |-> <<"+", "2">>],
    [key |-> <<"push", "up", "sets">>, value |-> <<"-", "2">>]>>
DeltaC ==
  <<[key |-> <<"plank", "hold", "reps">>, value |-> <<"+", "5">>],
    [key |-> <<"lunge", "reps", "each", "side">>, value |-> <<"+", "1">>],
    [key |-> <<"push", "reps">>, value |-> <<"a", "b", "c">>],
    [key |-> <<"plank", "hold", "seconds", "each", "side">>, value |-> <<"-", "5">>]>>

SnapshotEntry(dp) == [hasDP |-> TRUE, dp |-> dp, hasDelta |-> FALSE, deltas |-> <<>>]
DeltaEntry(ds) == [hasDP |-> FALSE, dp |-> <<>>, hasDelta |-> TRUE, deltas |-> ds]

BothEntry == [hasDP |-> TRUE, dp |-> SnapA, hasDelta |-> TRUE, deltas |-> DeltaB]
NeitherEntry == [hasDP |-> FALSE, dp |-> <<>>, hasDelta |-> FALSE, deltas |-> <<>>]

EntryKinds ==
  { SnapshotEntry(SnapA), SnapshotEntry(SnapB),
    DeltaEntry(DeltaA), DeltaEntry(DeltaB), DeltaEntry(DeltaC),
    BothEntry, NeitherEntry }

StoredKinds ==
  { SnapshotEntry(SnapA), SnapshotEntry(SnapB),
    DeltaEntry(DeltaA), DeltaEntry(DeltaB), BothEntry }

EntryValues ==
  { [week |-> wk, hasDP |-> e.hasDP, dp |-> e.dp, hasDelta |-> e.hasDelta,
     deltas |-> e.deltas] : wk \in 1..MaxWeek, e \in StoredKinds }

\* Programs in any storage order, with gaps and duplicate week numbers.
StoredPrograms == UNION { [1..n -> EntryValues] : n \in 0..MaxEntries }

\* Programs with one entry per week, weeks 1..n in order.
WeeklyPrograms ==
  UNION { { [i \in 1..n |->
              [week |-> i, hasDP |-> f[i].hasDP, dp |-> f[i].dp,
               hasDelta |-> f[i].hasDelta, deltas |-> f[i].deltas]] :
            f \in [1..n -> EntryKinds] } : n \in 0..MaxWeek }

Programs == StoredPrograms \cup WeeklyPrograms

\* JSON.parse of the imported text: one fresh day mapping and fresh items per
\* day_prescription, in the order of weekly_targets.
RECURSIVE LoadProgram(_, _, _)
LoadProgram(pv, i, st) ==
  IF i > Len(pv) THEN st
  ELSE LET e == pv[i]
           a == AllocDays(st.items, e.dp, 1, <<>>)
           t == [week |-> e.week,
                 day_prescription |-> IF e.hasDP THEN Len(st.maps) + 1 ELSE 0,
                 hasDelta |-> e.hasDelta, deltas |-> e.deltas]
       IN LoadProgram(pv, i + 1,
            [items |-> IF e.hasDP THEN a.items ELSE st.items,
             maps |-> IF e.hasDP THEN Append(st.maps, a.map) ELSE st.maps,
             targets |-> Append(st.targets, t)])

VARIABLES
  variant,              \* which utils is loaded: "utils" or the earlier "utils.ts"
  program0,             \* the program as imported, by value
  weekly_targets,       \* program.weekly_targets
  items,                \* heap of PrescriptionItem objects
  maps,                 \* heap of day mappings
  pc,                   \* "idle", "loop" or "done"
  targetWeek,           \* argument of the running call
  w,                    \* loop counter
  currentPrescription,  \* address of the working prescription
  result,               \* address returned by the last call, 0 when none
  ex,                   \* argument of formatExerciseTarget
  formatted,            \* its return value, <<>> before the call
  other,                \* locals of a second invocation running on the same program
  programsStore,        \* object store 'programs': its records in key order
  programsKey,          \* the key generator of 'programs'
  logsStore,            \* object store 'logs': its records in key order
  program,              \* App state: the active program, NoProgram for null
  logs,                 \* App state: the workout logs
  isImporting,          \* App state: the import dialog is open
  alerts,               \* messages shown by alert(), oldest first
  importCall,           \* the running handleImport: its position and locals
  session,              \* WorkoutSession: its props, its state and the calls of onComplete
  isConfirmingDelete,   \* App state: the delete confirmation is open
  resetCall,            \* the running handleReset: "idle", "clearAllData", "done" or "failed"
  dashboard             \* the dashboard: what it shows and the workout it started

engineVars ==
  <<variant, program0, weekly_targets, items, maps, pc, targetWeek, w,
    currentPrescription, result>>
formatVars == <<ex, formatted>>
otherVars == <<other>>
appVars ==
  <<programsStore, programsKey, logsStore, program, logs, isImporting, alerts,
    importCall>>
resetVars == <<isConfirmingDelete, resetCall>>
sessionVars == <<session>>
dashboardVars == <<dashboard>>
vars ==
  <<engineVars, formatVars, otherVars, appVars, resetVars, sessionVars, dashboardVars>>

\* What the steps of one component leave alone.
outsideEngine == <<formatVars, otherVars, appVars, resetVars, sessionVars, dashboardVars>>
outsideFormat == <<engineVars, otherVars, appVars, resetVars, sessionVars, dashboardVars>>
outsideCalls == <<formatVars, appVars, resetVars, sessionVars, dashboardVars>>
outsideApp == <<engineVars, formatVars, otherVars, sessionVars, dashboardVars>>
outsideImport == <<outsideApp, resetVars>>
outsideSession == <<engineVars, formatVars, otherVars, appVars, resetVars, dashboardVars>>

\* No second invocation.
OtherIdle ==
  [pc |-> "idle", targetWeek |-> 0, w |-> 0, currentPrescription |-> 0, result |-> 0]

\* null
NoProgram == [id |-> 0, name |-> "null"]

\* A parsed JSON value: an object with program_name name and, when hasId, the
\* field id; or a value that is not an object.
NoValue == [kind |-> "undefined", hasId |-> FALSE, id |-> 0, name |-> ""]

\* No handleImport has been called.  before holds the stores and the App state
\* as they were at the call.
ImportIdle ==
  [pc |-> "idle", parsed |-> NoValue, p |-> NoProgram, failed |-> FALSE,
   before |-> [programsStore |-> <<>>, program |-> NoProgram, logs |-> <<>>]]

\* No WorkoutSession is mounted (activeWorkout is null).
NoSession ==
  [mounted |-> FALSE, exercises |-> <<>>, currentExerciseIndex |-> 0,
   currentSetIndex |-> 0, isResting |-> FALSE, isPaused |-> FALSE,
   restTimeLeft |-> 0, sessionTime |-> 0, exerciseTime |-> 0,
   workoutLog |-> <<>>, onComplete |-> <<>>, date |-> 0]

\* The dashboard is not shown and has started no workout.
NoDashboard == [duration_weeks |-> 0, activeWorkout |-> [kind |-> "null"]]

\* The App before anything is stored or shown.
AppIdle ==
  /\ programsStore = <<>>
  /\ programsKey = 1
  /\ logsStore = <<>>
  /\ program = NoProgram
  /\ logs = <<>>
  /\ isImporting = FALSE
  /\ alerts = <<>>
  /\ importCall = ImportIdle
  /\ isConfirmingDelete = FALSE
  /\ resetCall = "idle"

Init ==
  /\ variant \in {"utils", "utils.ts"}
  /\ program0 \in Programs
  /\ LET st == LoadProgram(program0, 1, [items |-> <<>>, maps |-> <<>>, targets |-> <<>>])
     IN /\ weekly_targets = st.targets
        /\ items = st.items
        /\ maps = st.maps
  /\ pc = "idle"
  /\ targetWeek = 0
  /\ w = 0
  /\ currentPrescription = 0
  /\ result = 0
  /\ ex = NoItem
  /\ formatted = <<>>
  /\ other = OtherIdle
  /\ AppIdle
  /\ session = NoSession
  /\ dashboard = NoDashboard

(***************************************************************************)
(* calculatePrescriptionForWeek, one action per loop iteration.            *)
(***************************************************************************)
\* (variant of Find that reads the array by position: program.weekly_targets[w - 1])
FindByPosition(targets, wk) == IF wk <= Len(targets) THEN wk ELSE 0

\* (variant of Find that returns the last match: findLast((t) => t.week === w))
FindLast(targets, wk) ==
  IF \E i \in 1..Len(targets) : targets[i].week = wk
  THEN CHOOSE i \in 1..Len(targets) :
         /\ targets[i].week = wk
         /\ \A j \in (i + 1)..Len(targets) : targets[j].week # wk
  ELSE 0

\* program.weekly_targets.find((t) => t.week === w): index of the first match,
\* 0 for undefined.
Find(targets, wk) ==
  IF \E i \in 1..Len(targets) : targets[i].week = wk
  THEN CHOOSE i \in 1..Len(targets) :
         /\ targets[i].week = wk
         /\ \A j \in 1..(i - 1) : targets[j].week # wk
  ELSE 0

\* (variant of SnapshotCopy without the copy: currentPrescription = weekData.day_prescription)
SnapshotAlias(its, mps, dp) == [items |-> its, maps |-> mps, cur |-> dp]

\* currentPrescription = JSON.parse(JSON.stringify(weekData.day_prescription)):
\* a fresh day mapping holding fresh items.
SnapshotCopy(its, mps, dp) ==
  LET copy == [d \in DOMAIN mps[dp] |->
                 [j \in 1..Len(mps[dp][d]) |-> JsonItem(its[mps[dp][d][j]])]]
      a == CHOOSE c \in {AllocDays(its, copy, 1, <<>>)} : TRUE
  IN [items |-> a.items, maps |-> Append(mps, a.map), cur |-> Len(mps) + 1]

\* (variant of DeltaApply that keeps only the days in which an item changed:
\*  a day whose items all match no key is deleted)
DeltaApplyChangedDays(v, its, mps, cur, deltas) ==
  LET old == [d \in DOMAIN mps[cur] |->
                [j \in 1..Len(mps[cur][d]) |-> its[mps[cur][d][j]]]]
      days == {d \in DOMAIN old :
                 \E j \in 1..Len(old[d]) : MapItem(v, old[d][j], deltas, 1) # old[d][j]}
      mapped == [d \in days |->
                   [j \in 1..Len(old[d]) |-> MapItem(v, old[d][j], deltas, 1)]]
      a == CHOOSE c \in {AllocDays(its, mapped, 1, <<>>)} : TRUE
  IN [items |-> a.items, maps |-> [mps EXCEPT ![cur] = a.map]]

\* for (const day in currentPrescription)
\*   currentPrescription[day] = currentPrescription[day].map(...)
\* : every day of the working mapping is assigned a new array of new items.
DeltaApply(v, its, mps, cur, deltas) ==
  LET mapped == [d \in DOMAIN mps[cur] |->
                   [j \in 1..Len(mps[cur][d]) |-> MapItem(v, its[mps[cur][d][j]], deltas, 1)]]
      a == CHOOSE c \in {AllocDays(its, mapped, 1, <<>>)} : TRUE
  IN [items |-> a.items, maps |-> [mps EXCEPT ![cur] = a.map]]

\* calculatePrescriptionForWeek as a function of the program given by value:
\* the same loop, on values instead of objects.
RECURSIVE ResolveFrom(_, _, _, _, _)
ResolveFrom(v, pv, W, wk, cur) ==
  IF wk > W THEN cur
  ELSE LET i == Find(pv, wk)
       IN IF i = 0 THEN ResolveFrom(v, pv, W, wk + 1, cur)
          ELSE IF pv[i].hasDP
          THEN ResolveFrom(v, pv, W, wk + 1,
                 [d \in DOMAIN pv[i].dp |->
                    [j \in 1..Len(pv[i].dp[d]) |-> JsonItem(pv[i].dp[d][j])]])
          ELSE IF pv[i].hasDelta
          THEN ResolveFrom(v, pv, W, wk + 1,
                 [d \in DOMAIN cur |->
                    [j \in 1..Len(cur[d]) |-> MapItem(v, cur[d][j], pv[i].deltas, 1)]])
          ELSE ResolveFrom(v, pv, W, wk + 1, cur)

calculatePrescriptionForWeek(v, pv, W) == ResolveFrom(v, pv, W, 1, <<>>)

\* Objects no longer reachable once the caller drops the previous result.
MaxOf(S) == IF S = {} THEN 0 ELSE CHOOSE x \in S : \A y \in S : y <= x
LiveMaps == MaxOf({weekly_targets[i].day_prescription : i \in 1..Len(weekly_targets)})
LiveItems ==
  MaxOf(UNION { UNION { {maps[a][d][j] : j \in 1..Len(maps[a][d])} : d \in DOMAIN maps[a] }
                : a \in 1..LiveMaps })

Call(W) ==
  /\ pc \in {"idle", "done"}
  /\ pc' = "loop"
  /\ targetWeek' = W
  /\ w' = 1
  /\ items' = SubSeq(items, 1, LiveItems)
  /\ maps' = Append(SubSeq(maps, 1, LiveMaps), <<>>)
  /\ currentPrescription' = LiveMaps + 1
  /\ result' = 0
  /\ UNCHANGED <<variant, program0, weekly_targets>>
  /\ UNCHANGED outsideEngine

\* (variant of NoEntry that starts over: currentPrescription = {}; continue)
NoEntryReset ==
  /\ pc = "loop" /\ w <= targetWeek
  /\ Find(weekly_targets, w) = 0
  /\ w' = w + 1
  /\ maps' = [maps EXCEPT ![currentPrescription] = <<>>]
  /\ UNCHANGED <<variant, program0, weekly_targets, items, pc, targetWeek,
                 currentPrescription, result>>
  /\ UNCHANGED outsideEngine

\* (variant of NoEntry that leaves the loop: break)
NoEntryBreak ==
  /\ pc = "loop" /\ w <= targetWeek
  /\ Find(weekly_targets, w) = 0
  /\ w' = targetWeek + 1
  /\ UNCHANGED <<variant, program0, weekly_targets, items, maps, pc, targetWeek,
                 currentPrescription, result>>
  /\ UNCHANGED outsideEngine

\* if (!weekData) continue;
NoEntry ==
  /\ pc = "loop" /\ w <= targetWeek
  /\ Find(weekly_targets, w) = 0
  /\ w' = w + 1
  /\ UNCHANGED <<variant, program0, weekly_targets, items, maps, pc, targetWeek,
                 currentPrescription, result>>
  /\ UNCHANGED outsideEngine

\* (variant of SnapshotWeek that keeps the days the snapshot does not name:
\*  Object.assign(currentPrescription, copy))
SnapshotWeekMerge ==
  /\ pc = "loop" /\ w <= targetWeek
  /\ Find(weekly_targets, w) # 0
  /\ LET weekData == weekly_targets[Find(weekly_targets, w)]
     IN /\ weekData.day_prescription # 0
        /\ \E c \in {SnapshotCopy(items, maps, weekData.day_prescription)} :
              /\ items' = c.items
              /\ maps' = [maps EXCEPT ![currentPrescription] = c.maps[c.cur] @@ @]
  /\ w' = w + 1
  /\ UNCHANGED <<variant, program0, weekly_targets, pc, targetWeek,
                 currentPrescription, result>>
  /\ UNCHANGED outsideEngine

\* (variant of SnapshotWeek without the else: the delta branch is an if of its
\*  own and runs on the copy)
SnapshotWeekThenDelta ==
  /\ pc = "loop" /\ w <= targetWeek
  /\ Find(weekly_targets, w) # 0
  /\ LET weekData == weekly_targets[Find(weekly_targets, w)]
     IN /\ weekData.day_prescription # 0
        /\ \E c \in {SnapshotCopy(items, maps, weekData.day_prescription)} :
             \E e \in {IF weekData.hasDelta
                       THEN DeltaApply(variant, c.items, c.maps, c.cur, weekData.deltas)
                       ELSE [items |-> c.items, maps |-> c.maps]} :
               /\ items' = e.items
               /\ maps' = e.maps
               /\ currentPrescription' = c.cur
  /\ w' = w + 1
  /\ UNCHANGED <<variant, program0, weekly_targets, pc, targetWeek, result>>
  /\ UNCHANGED outsideEngine

\* if (weekData.day_prescription) { currentPrescription = <deep copy> }
SnapshotWeek ==
  /\ pc = "loop" /\ w <= targetWeek
  /\ Find(weekly_targets, w) # 0
  /\ LET weekData == weekly_targets[Find(weekly_targets, w)]
     IN /\ weekData.day_prescription # 0
        /\ \E c \in {SnapshotCopy(items, maps, weekData.day_prescription)} :
              /\ items' = c.items
              /\ maps' = c.maps
              /\ currentPrescription' = c.cur
  /\ w' = w + 1
  /\ UNCHANGED <<variant, program0, weekly_targets, pc, targetWeek, result>>
  /\ UNCHANGED outsideEngine

\* else if (weekData.delta_from_previous_week) { ... }
DeltaWeek ==
  /\ pc = "loop" /\ w <= targetWeek
  /\ Find(weekly_targets, w) # 0
  /\ LET weekData == weekly_targets[Find(weekly_targets, w)]
     IN /\ weekData.day_prescription = 0
        /\ weekData.hasDelta
        /\ \E c \in {DeltaApply(variant, items, maps, currentPrescription, weekData.deltas)} :
              /\ items' = c.items
              /\ maps' = c.maps
  /\ w' = w + 1
  /\ UNCHANGED <<variant, program0, weekly_targets, pc, targetWeek,
                 currentPrescription, result>>
  /\ UNCHANGED outsideEngine

\* (variant of EmptyWeek that starts over: else { currentPrescription = {} })
EmptyWeekReset ==
  /\ pc = "loop" /\ w <= targetWeek
  /\ Find(weekly_targets, w) # 0
  /\ LET weekData == weekly_targets[Find(weekly_targets, w)]
     IN weekData.day_prescription = 0 /\ ~weekData.hasDelta
  /\ w' = w + 1
  /\ maps' = [maps EXCEPT ![currentPrescription] = <<>>]
  /\ UNCHANGED <<variant, program0, weekly_targets, items, pc, targetWeek,
                 currentPrescription, result>>
  /\ UNCHANGED outsideEngine

\* an entry with neither field: nothing to do
EmptyWeek ==
  /\ pc = "loop" /\ w <= targetWeek
  /\ Find(weekly_targets, w) # 0
  /\ LET weekData == weekly_targets[Find(weekly_targets, w)]
     IN weekData.day_prescription = 0 /\ ~weekData.hasDelta
  /\ w' = w + 1
  /\ UNCHANGED <<variant, program0, weekly_targets, items, maps, pc, targetWeek,
                 currentPrescription, result>>
  /\ UNCHANGED outsideEngine

\* return currentPrescription
Return ==
  /\ pc = "loop" /\ w > targetWeek
  /\ pc' = "done"
  /\ result' = currentPrescription
  /\ UNCHANGED <<variant, program0, weekly_targets, items, maps, targetWeek, w,
                 currentPrescription>>
  /\ UNCHANGED outsideEngine

Next ==
  \/ \E W \in 1..MaxWeek : Call(W)
  \/ NoEntry
  \/ SnapshotWeek
  \/ DeltaWeek
  \/ EmptyWeek
  \/ Return

Spec == Init /\ [][Next]_vars

\* The working prescription and the returned prescription, by value.
Cur == DayMapValue(items, maps, currentPrescription)
Result == DayMapValue(items, maps, result)

\* program.weekly_targets by value, read through the heap.
ProgramValue ==
  [i \in 1..Len(weekly_targets) |->
     [week |-> weekly_targets[i].week,
      hasDP |-> weekly_targets[i].day_prescription # 0,
      dp |-> IF weekly_targets[i].day_prescription # 0
             THEN DayMapValue(items, maps, weekly_targets[i].day_prescription)
             ELSE <<>>,
      hasDelta |-> weekly_targets[i].hasDelta,
      deltas |-> weekly_targets[i].deltas]]

(***************************************************************************)
(* formatExerciseTarget applied to an item.                                *)
(***************************************************************************)
InitFormat ==
  /\ variant = "utils"
  /\ program0 = <<>>
  /\ weekly_targets = <<>>
  /\ items = <<>>
  /\ maps = <<>>
  /\ pc = "idle"
  /\ targetWeek = 0
  /\ w = 0
  /\ currentPrescription = 0
  /\ result = 0
  /\ ex = NoItem
  /\ formatted = <<>>
  /\ other = OtherIdle
  /\ AppIdle
  /\ session = NoSession
  /\ dashboard = NoDashboard

Format ==
  /\ formatted = <<>>
  /\ formatted' = formatExerciseTarget(ex)
  /\ UNCHANGED ex
  /\ UNCHANGED outsideFormat

NextItem ==
  /\ formatted # <<>>
  /\ ex' \in FormatItems
  /\ formatted' = <<>>
  /\ UNCHANGED outsideFormat

NextFormat == Format \/ NextItem

SpecFormat == InitFormat /\ [][NextFormat]_vars

(***************************************************************************)
(* Two invocations of calculatePrescriptionForWeek on the same program     *)
(* object, interleaved at the iterations of their loops.  The first one    *)
(* runs in the variables of the single call; the locals of the second are  *)
(* the fields of other.  Objects are shared through the two heaps.         *)
(***************************************************************************)
MaxConcurrentWeek == 2

\* Programs with one entry per week, weeks 1..n in order.
ConcurrentPrograms ==
  UNION { { [i \in 1..n |->
              [week |-> i, hasDP |-> f[i].hasDP, dp |-> f[i].dp,
               hasDelta |-> f[i].hasDelta, deltas |-> f[i].deltas]] :
            f \in [1..n -> EntryKinds] } : n \in 0..MaxConcurrentWeek }

InitConcurrent ==
  /\ variant \in {"utils", "utils.ts"}
  /\ program0 \in ConcurrentPrograms
  /\ LET st == LoadProgram(program0, 1, [items |-> <<>>, maps |-> <<>>, targets |-> <<>>])
     IN /\ weekly_targets = st.targets
        /\ items = st.items
        /\ maps = st.maps
  /\ pc = "idle"
  /\ targetWeek = 0
  /\ w = 0
  /\ currentPrescription = 0
  /\ result = 0
  /\ ex = NoItem
  /\ formatted = <<>>
  /\ other = OtherIdle
  /\ AppIdle
  /\ session = NoSession
  /\ dashboard = NoDashboard

\* let currentPrescription = {}; w = 1  (the first invocation, called once)
CallConcurrent(W) ==
  /\ pc = "idle"
  /\ pc' = "loop"
  /\ targetWeek' = W
  /\ w' = 1
  /\ maps' = Append(maps, <<>>)
  /\ currentPrescription' = Len(maps) + 1
  /\ result' = 0
  /\ UNCHANGED <<variant, program0, weekly_targets, items>>
  /\ UNCHANGED outsideEngine

\* let currentPrescription = {}; w = 1  (the second invocation)
OtherCall(W) ==
  /\ other.pc = "idle"
  /\ other' = [pc |-> "loop", targetWeek |-> W, w |-> 1,
               currentPrescription |-> Len(maps) + 1, result |-> 0]
  /\ maps' = Append(maps, <<>>)
  /\ UNCHANGED <<variant, program0, weekly_targets, items, pc, targetWeek, w,
                 currentPrescription, result>>
  /\ UNCHANGED outsideCalls

\* if (!weekData) continue;
OtherNoEntry ==
  /\ other.pc = "loop" /\ other.w <= other.targetWeek
  /\ Find(weekly_targets, other.w) = 0
  /\ other' = [other EXCEPT !.w = @ + 1]
  /\ UNCHANGED engineVars
  /\ UNCHANGED outsideCalls

\* (variant of OtherSnapshotWeek without the copy:
\*  currentPrescription = weekData.day_prescription)
OtherSnapshotWeekAlias ==
  /\ other.pc = "loop" /\ other.w <= other.targetWeek
  /\ Find(weekly_targets, other.w) # 0
  /\ LET weekData == weekly_targets[Find(weekly_targets, other.w)]
     IN /\ weekData.day_prescription # 0
        /\ other' = [other EXCEPT !.w = @ + 1,
                                  !.currentPrescription = weekData.day_prescription]
  /\ UNCHANGED engineVars
  /\ UNCHANGED outsideCalls

\* if (weekData.day_prescription) { currentPrescription = <deep copy> }
OtherSnapshotWeek ==
  /\ other.pc = "loop" /\ other.w <= other.targetWeek
  /\ Find(weekly_targets, other.w) # 0
  /\ LET weekData == weekly_targets[Find(weekly_targets, other.w)]
     IN /\ weekData.day_prescription # 0
        /\ \E c \in {SnapshotCopy(items, maps, weekData.day_prescription)} :
              /\ items' = c.items
              /\ maps' = c.maps
              /\ other' = [other EXCEPT !.w = @ + 1, !.currentPrescription = c.cur]
  /\ UNCHANGED <<variant, program0, weekly_targets, pc, targetWeek, w,
                 currentPrescription, result>>
  /\ UNCHANGED outsideCalls

\* else if (weekData.delta_from_previous_week) { ... }
OtherDeltaWeek ==
  /\ other.pc = "loop" /\ other.w <= other.targetWeek
  /\ Find(weekly_targets, other.w) # 0
  /\ LET weekData == weekly_targets[Find(weekly_targets, other.w)]
     IN /\ weekData.day_prescription = 0
        /\ weekData.hasDelta
        /\ \E c \in {DeltaApply(variant, items, maps, other.currentPrescription,
                                weekData.deltas)} :
              /\ items' = c.items
              /\ maps' = c.maps
  /\ other' = [other EXCEPT !.w = @ + 1]
  /\ UNCHANGED <<variant, program0, weekly_targets, pc, targetWeek, w,
                 currentPrescription, result>>
  /\ UNCHANGED outsideCalls

\* an entry with neither field: nothing to do
OtherEmptyWeek ==
  /\ other.pc = "loop" /\ other.w <= other.targetWeek
  /\ Find(weekly_targets, other.w) # 0
  /\ LET weekData == weekly_targets[Find(weekly_targets, other.w)]
     IN weekData.day_prescription = 0 /\ ~weekData.hasDelta
  /\ other' = [other EXCEPT !.w = @ + 1]
  /\ UNCHANGED engineVars
  /\ UNCHANGED outsideCalls

\* return currentPrescription
OtherReturn ==
  /\ other.pc = "loop" /\ other.w > other.targetWeek
  /\ other' = [other EXCEPT !.pc = "done", !.result = other.currentPrescription]
  /\ UNCHANGED engineVars
  /\ UNCHANGED outsideCalls

NextConcurrent ==
  \/ \E W \in 1..MaxConcurrentWeek : CallConcurrent(W)
  \/ NoEntry
  \/ SnapshotWeek
  \/ DeltaWeek
  \/ EmptyWeek
  \/ Return
  \/ \E W \in 1..MaxConcurrentWeek : OtherCall(W)
  \/ OtherNoEntry
  \/ OtherSnapshotWeek
  \/ OtherDeltaWeek
  \/ OtherEmptyWeek
  \/ OtherReturn

SpecConcurrent == InitConcurrent /\ [][NextConcurrent]_vars

\* The prescription returned by the second invocation, by value.
OtherResult == DayMapValue(items, maps, other.result)

(***************************************************************************)
(* The App: handleImport and loadData over the IndexedDB stores.  A step   *)
(* is the code between two awaits; a storage request can fail.             *)
(***************************************************************************)
MaxPrograms == 3
MaxAlerts == 2

InvalidJson == "Invalid JSON format. Please check your file."

\* The texts given to handleImport: jsonString.json says whether JSON.parse
\* accepts the text, value is what it returns then.
ImportTexts ==
  { [json |-> FALSE, value |-> NoValue],
    [json |-> TRUE, value |-> [kind |-> "number", hasId |-> FALSE, id |-> 0, name |-> ""]],
    [json |-> TRUE, value |-> [kind |-> "object", hasId |-> FALSE, id |-> 0, name |-> "A"]],
    [json |-> TRUE, value |-> [kind |-> "object", hasId |-> TRUE, id |-> 0, name |-> "B"]] }

\* A record put at its place in key order.
InsertByKey(store, rec) ==
  LET Below(r) == r.id < rec.id
      Above(r) == r.id > rec.id
  IN SelectSeq(store, Below) \o <<rec>> \o SelectSeq(store, Above)

\* db.add('programs', value) on a store with keyPath 'id' and autoIncrement:
\* a value that is not an object cannot take a key, a key in use is refused,
\* a key given in the value is kept and moves the generator past it.
DbAdd(store, key, value) ==
  IF value.kind # "object" THEN [ok |-> FALSE, store |-> store, key |-> key]
  ELSE IF value.hasId
  THEN IF \E i \in 1..Len(store) : store[i].id = value.id
       THEN [ok |-> FALSE, store |-> store, key |-> key]
       ELSE [ok |-> TRUE,
             store |-> InsertByKey(store, [id |-> value.id, name |-> value.name]),
             key |-> IF value.id >= key THEN value.id + 1 ELSE key]
  ELSE [ok |-> TRUE,
        store |-> InsertByKey(store, [id |-> key, name |-> value.name]),
        key |-> key + 1]

\* programs.length > 0 ? programs[programs.length - 1] : null
LastProgram(store) == IF Len(store) > 0 THEN store[Len(store)] ELSE NoProgram

\* The App of an earlier visit: what is stored has been loaded at mount.
InitApp ==
  /\ variant = "utils"
  /\ program0 = <<>>
  /\ weekly_targets = <<>>
  /\ items = <<>>
  /\ maps = <<>>
  /\ pc = "idle"
  /\ targetWeek = 0
  /\ w = 0
  /\ currentPrescription = 0
  /\ result = 0
  /\ ex = NoItem
  /\ formatted = <<>>
  /\ other = OtherIdle
  /\ programsStore \in {<<>>, <<[id |-> 1, name |-> "A"]>>}
  /\ programsKey = Len(programsStore) + 1
  /\ logsStore \in {<<>>, <<[id |-> 1]>>}
  /\ program = LastProgram(programsStore)
  /\ logs = logsStore
  /\ isImporting = FALSE
  /\ alerts = <<>>
  /\ importCall = ImportIdle
  /\ isConfirmingDelete = FALSE
  /\ resetCall = "idle"
  /\ session = NoSession
  /\ dashboard = NoDashboard

\* onClick={() => setIsImporting(true)}
OpenImport ==
  /\ ~isImporting
  /\ isImporting' = TRUE
  /\ UNCHANGED <<programsStore, programsKey, logsStore, program, logs, alerts, importCall>>
  /\ UNCHANGED outsideImport

\* onClick={() => setIsImporting(false)}
CancelImport ==
  /\ isImporting
  /\ isImporting' = FALSE
  /\ UNCHANGED <<programsStore, programsKey, logsStore, program, logs, alerts, importCall>>
  /\ UNCHANGED outsideImport

\* catch (e) { alert("Invalid JSON format. Please check your file."); }
Caught == [importCall EXCEPT !.pc = "done", !.failed = TRUE]

\* handleImport up to its first await: JSON.parse, then the call of saveProgram.
handleImport(jsonString) ==
  /\ isImporting
  /\ importCall.pc \in {"idle", "done"}
  /\ Len(programsStore) < MaxPrograms /\ programsKey <= MaxPrograms
  /\ Len(alerts) < MaxAlerts
  /\ LET call == [pc |-> "saveProgram", parsed |-> jsonString.value, p |-> NoProgram,
                  failed |-> FALSE,
                  before |-> [programsStore |-> programsStore, program |-> program,
                              logs |-> logs]]
     IN IF jsonString.json
        THEN /\ importCall' = call
             /\ UNCHANGED alerts
        ELSE /\ importCall' = [call EXCEPT !.pc = "done", !.failed = TRUE,
                                           !.parsed = NoValue]
             /\ alerts' = Append(alerts, InvalidJson)
  /\ UNCHANGED <<programsStore, programsKey, logsStore, program, logs, isImporting>>
  /\ UNCHANGED outsideImport

\* await saveProgram(parsed): initDB, then db.add('programs', program).
saveProgram ==
  /\ importCall.pc = "saveProgram"
  /\ \E requestOk \in BOOLEAN :
       LET r == DbAdd(programsStore, programsKey, importCall.parsed)
       IN IF requestOk /\ r.ok
          THEN /\ programsStore' = r.store
               /\ programsKey' = r.key
               /\ importCall' = [importCall EXCEPT !.pc = "getActiveProgram"]
               /\ UNCHANGED alerts
          ELSE /\ importCall' = Caught
               /\ alerts' = Append(alerts, InvalidJson)
               /\ UNCHANGED <<programsStore, programsKey>>
  /\ UNCHANGED <<logsStore, program, logs, isImporting>>
  /\ UNCHANGED outsideImport

\* loadData: const p = await getActiveProgram()
getActiveProgram ==
  /\ importCall.pc = "getActiveProgram"
  /\ \E requestOk \in BOOLEAN :
       IF requestOk
       THEN /\ importCall' = [importCall EXCEPT !.pc = "getWorkoutLogs",
                                                !.p = LastProgram(programsStore)]
            /\ UNCHANGED alerts
       ELSE /\ importCall' = Caught
            /\ alerts' = Append(alerts, InvalidJson)
  /\ UNCHANGED <<programsStore, programsKey, logsStore, program, logs, isImporting>>
  /\ UNCHANGED outsideImport

\* loadData: const l = await getWorkoutLogs(); setProgram(p); setLogs(l);
\* then, back in handleImport, setIsImporting(false).
getWorkoutLogs ==
  /\ importCall.pc = "getWorkoutLogs"
  /\ \E requestOk \in BOOLEAN :
       IF requestOk
       THEN /\ program' = importCall.p
            /\ logs' = logsStore
            /\ isImporting' = FALSE
            /\ importCall' = [importCall EXCEPT !.pc = "done"]
            /\ UNCHANGED alerts
       ELSE /\ importCall' = Caught
            /\ alerts' = Append(alerts, InvalidJson)
            /\ UNCHANGED <<program, logs, isImporting>>
  /\ UNCHANGED <<programsStore, programsKey, logsStore>>
  /\ UNCHANGED outsideImport

FailedToClear == "Failed to clear data. Please try again."

\* onClick={() => setIsConfirmingDelete(true)}
OpenConfirmDelete ==
  /\ ~isConfirmingDelete
  /\ isConfirmingDelete' = TRUE
  /\ UNCHANGED <<resetCall, appVars>>
  /\ UNCHANGED outsideApp

\* Cancel, or a click on the backdrop: setIsConfirmingDelete(false)
CancelDelete ==
  /\ isConfirmingDelete
  /\ isConfirmingDelete' = FALSE
  /\ UNCHANGED <<resetCall, appVars>>
  /\ UNCHANGED outsideApp

\* Yes, Delete Everything: handleReset up to its await of clearAllData().
handleReset ==
  /\ isConfirmingDelete
  /\ resetCall # "clearAllData"
  /\ Len(alerts) < MaxAlerts
  /\ resetCall' = "clearAllData"
  /\ UNCHANGED <<isConfirmingDelete, appVars>>
  /\ UNCHANGED outsideApp

\* clearAllData: one readwrite transaction over both stores, which either
\* commits both clears or aborts; then, in handleReset, setProgram(null),
\* setLogs([]), setIsConfirmingDelete(false), or the catch with its alert.
clearAllData ==
  /\ resetCall = "clearAllData"
  /\ \E requestOk \in BOOLEAN :
       IF requestOk
       THEN /\ programsStore' = <<>>
            /\ logsStore' = <<>>
            /\ program' = NoProgram
            /\ logs' = <<>>
            /\ isConfirmingDelete' = FALSE
            /\ resetCall' = "done"
            /\ UNCHANGED alerts
       ELSE /\ resetCall' = "failed"
            /\ alerts' = Append(alerts, FailedToClear)
            /\ UNCHANGED <<programsStore, logsStore, program, logs, isConfirmingDelete>>
  /\ UNCHANGED <<programsKey, isImporting, importCall>>
  /\ UNCHANGED outsideApp

NextApp ==
  \/ OpenImport
  \/ CancelImport
  \/ \E jsonString \in ImportTexts : handleImport(jsonString)
  \/ saveProgram
  \/ getActiveProgram
  \/ getWorkoutLogs
  \/ OpenConfirmDelete
  \/ CancelDelete
  \/ handleReset
  \/ clearAllData

SpecApp == InitApp /\ [][NextApp]_vars

(***************************************************************************)
(* WorkoutSession (App.tsx).  session.exercises is the exercises prop,     *)
(* each item with the rest_s of its entry of program.exercise_library;     *)
(* indices count from 0 as in the code.  session.onComplete holds the      *)
(* calls of the onComplete prop, oldest first: the log each was given and  *)
(* the await its async function has reached.  session.date is the date of  *)
(* the workoutLog, taken at the mount, which tells the sessions apart.  A  *)
(* step is a timer callback or an event handler together with the state    *)
(* updates it makes, or the code between two awaits.                       *)
(***************************************************************************)
MaxSessionTime == 3
MaxCompleteCalls == 2
MaxSessions == 1

\* One exercise of the exercises prop.
SessionItem(name, sets, value, rest_s) ==
  [name |-> name, sets |-> sets, value |-> value, rest_s |-> rest_s]

SessionExercises ==
  { <<SessionItem("plank", 2, 30, 2)>>,
    <<SessionItem("push_up", 1, 10, 1), SessionItem("plank", 2, 30, 3)>> }

\* exercises.map(ex => ({ name, sets: Array(ex.sets).fill(null).map(...) }))
NewWorkoutLog(exercises) ==
  [i \in 1..Len(exercises) |->
     [name |-> exercises[i].name,
      sets |-> [s \in 1..exercises[i].sets |-> [completed |-> FALSE, value |-> 0]]]]

InitSession ==
  /\ variant = "utils"
  /\ program0 = <<>>
  /\ weekly_targets = <<>>
  /\ items = <<>>
  /\ maps = <<>>
  /\ pc = "idle"
  /\ targetWeek = 0
  /\ w = 0
  /\ currentPrescription = 0
  /\ result = 0
  /\ ex = NoItem
  /\ formatted = <<>>
  /\ other = OtherIdle
  /\ programsStore = <<[id |-> 1, name |-> "A"]>>
  /\ programsKey = 2
  /\ logsStore = <<>>
  /\ program = LastProgram(programsStore)
  /\ logs = logsStore
  /\ isImporting = FALSE
  /\ alerts = <<>>
  /\ importCall = ImportIdle
  /\ isConfirmingDelete = FALSE
  /\ resetCall = "idle"
  /\ session = NoSession
  /\ dashboard = NoDashboard

\* const currentExercise = exercises[currentExerciseIndex]
CurrentExercise == session.exercises[session.currentExerciseIndex + 1]

\* const isLastSet = currentSetIndex === currentExercise.sets - 1
IsLastSet == session.currentSetIndex = CurrentExercise.sets - 1

\* const isLastExercise = currentExerciseIndex === exercises.length - 1
IsLastExercise == session.currentExerciseIndex = Len(session.exercises) - 1

\* (variant of EndRest without the step to the next exercise:
\*  setIsResting(false); setCurrentSetIndex(prev => prev + 1))
EndRestNextSet(s) == [s EXCEPT !.isResting = FALSE, !.currentSetIndex = @ + 1]

\* setIsResting(false), then the next set or the next exercise.
EndRest(s) ==
  IF IsLastSet
  THEN [s EXCEPT !.isResting = FALSE,
                 !.currentExerciseIndex = @ + 1, !.currentSetIndex = 0]
  ELSE [s EXCEPT !.isResting = FALSE, !.currentSetIndex = @ + 1]

\* startWorkout, from the dashboard of a program: the component is mounted
\* with its initial state.
startWorkout(exercises) ==
  /\ ~session.mounted /\ program # NoProgram
  /\ session.date < MaxSessions
  /\ session' = [NoSession EXCEPT !.mounted = TRUE, !.exercises = exercises,
                                  !.workoutLog = NewWorkoutLog(exercises),
                                  !.date = session.date + 1,
                                  !.onComplete = session.onComplete]
  /\ UNCHANGED outsideSession

\* (variant of SessionTick whose effect also stops while resting:
\*  if (isPaused || isResting) return)
SessionTickExercising ==
  /\ session.mounted /\ ~session.isPaused /\ ~session.isResting
  /\ session.sessionTime < MaxSessionTime
  /\ session' = [session EXCEPT !.sessionTime = @ + 1, !.exerciseTime = @ + 1]
  /\ UNCHANGED outsideSession

\* The callback of the session interval, which exists while not paused.
SessionTick ==
  /\ session.mounted /\ ~session.isPaused
  /\ session.sessionTime < MaxSessionTime
  /\ session' = [session EXCEPT
                   !.sessionTime = @ + 1,
                   !.exerciseTime = IF ~session.isResting THEN @ + 1 ELSE @]
  /\ UNCHANGED outsideSession

\* (variant of RestTick that stops at zero without leaving the rest:
\*  if (prev <= 1) { clearInterval(restTimerRef.current); return 0; })
RestTickStops ==
  /\ session.mounted /\ session.isResting /\ ~session.isPaused
  /\ session.restTimeLeft > 0
  /\ session' = [session EXCEPT !.restTimeLeft = @ - 1]
  /\ UNCHANGED outsideSession

\* The callback of the rest interval, which exists while resting and not paused.
RestTick ==
  /\ session.mounted /\ session.isResting /\ ~session.isPaused
  /\ session' = IF session.restTimeLeft <= 1
                THEN EndRest([session EXCEPT !.restTimeLeft = 0])
                ELSE [session EXCEPT !.restTimeLeft = @ - 1]
  /\ UNCHANGED outsideSession

\* (variant of Finished whose log is the workoutLog of the last render:
\*  const newLog = structuredClone(workoutLog))
FinishedLastRender(s, completed) ==
  [s EXCEPT !.onComplete =
     Append(@, [date |-> s.date, exercises |-> session.workoutLog,
                totalDurationSeconds |-> s.sessionTime, completed |-> completed,
                pc |-> "saveWorkoutLog"])]

\* finishWorkout(completed): onComplete({...workoutLog, totalDurationSeconds, completed}),
\* which runs the onComplete of the App up to its await of saveWorkoutLog(log).
\* The exercises of workoutLog are the array handleSetComplete has written to.
Finished(s, completed) ==
  [s EXCEPT !.onComplete =
     Append(@, [date |-> s.date, exercises |-> s.workoutLog,
                totalDurationSeconds |-> s.sessionTime, completed |-> completed,
                pc |-> "saveWorkoutLog"])]

\* The Complete Set button: shown while not resting, disabled while paused.
handleSetComplete ==
  /\ session.mounted /\ ~session.isResting /\ ~session.isPaused
  /\ Len(session.onComplete) < MaxCompleteCalls
  /\ LET logged == [session EXCEPT
                      !.workoutLog[session.currentExerciseIndex + 1]
                                  .sets[session.currentSetIndex + 1] =
                        [completed |-> TRUE, value |-> CurrentExercise.value]]
     IN session' = IF IsLastSet /\ IsLastExercise
                   THEN Finished(logged, TRUE)
                   ELSE [logged EXCEPT !.isResting = TRUE,
                                       !.restTimeLeft = CurrentExercise.rest_s,
                                       !.exerciseTime = 0]
  /\ UNCHANGED outsideSession

\* The Skip Rest button: shown while resting.
skipRest ==
  /\ session.mounted /\ session.isResting
  /\ session' = EndRest(session)
  /\ UNCHANGED outsideSession

\* The pause button of the header: setIsPaused(true)
Pause ==
  /\ session.mounted /\ ~session.isPaused
  /\ session' = [session EXCEPT !.isPaused = TRUE]
  /\ UNCHANGED outsideSession

\* Resume Workout, on the pause overlay: setIsPaused(false)
Resume ==
  /\ session.mounted /\ session.isPaused
  /\ session' = [session EXCEPT !.isPaused = FALSE]
  /\ UNCHANGED outsideSession

\* Finish & Save Progress, on the pause overlay: finishWorkout(false)
FinishPaused ==
  /\ session.mounted /\ session.isPaused
  /\ Len(session.onComplete) < MaxCompleteCalls
  /\ session' = Finished(session, FALSE)
  /\ UNCHANGED outsideSession

\* setActiveWorkout(null): the component is unmounted and its state is gone;
\* the calls of onComplete go on.
Unmounted(s) == [NoSession EXCEPT !.onComplete = s.onComplete, !.date = s.date]

\* Discard & Quit on the pause overlay: onClose, setActiveWorkout(null)
onClose ==
  /\ session.mounted /\ session.isPaused
  /\ session' = Unmounted(session)
  /\ UNCHANGED outsideSession

\* What the App leaves alone while it handles onComplete.
outsideComplete ==
  <<engineVars, formatVars, otherVars, resetVars, dashboardVars, programsStore,
    programsKey, isImporting, alerts, importCall>>

\* The record db.add('logs', log) stores: the log under the next key of the
\* store, from which nothing is deleted while a session runs.
StoredLog(log) ==
  [id |-> Len(logsStore) + 1, date |-> log.date, exercises |-> log.exercises,
   totalDurationSeconds |-> log.totalDurationSeconds, completed |-> log.completed]

\* onComplete of the App: await saveWorkoutLog(log).  A request that fails
\* rejects the promise of onComplete, which nothing handles.
saveWorkoutLog ==
  \E i \in 1..Len(session.onComplete) :
    /\ session.onComplete[i].pc = "saveWorkoutLog"
    /\ \E requestOk \in BOOLEAN :
         IF requestOk
         THEN /\ logsStore' = Append(logsStore, StoredLog(session.onComplete[i]))
              /\ session' = [session EXCEPT !.onComplete[i].pc = "loadData"]
         ELSE /\ session' = [session EXCEPT !.onComplete[i].pc = "failed"]
              /\ UNCHANGED logsStore
    /\ UNCHANGED <<program, logs>>
    /\ UNCHANGED outsideComplete

\* onComplete of the App: await loadData(); setActiveWorkout(null)
loadData ==
  \E i \in 1..Len(session.onComplete) :
    /\ session.onComplete[i].pc = "loadData"
    /\ \E requestOk \in BOOLEAN :
         IF requestOk
         THEN /\ program' = LastProgram(programsStore)
              /\ logs' = logsStore
              /\ session' = Unmounted([session EXCEPT !.onComplete[i].pc = "done"])
         ELSE /\ session' = [session EXCEPT !.onComplete[i].pc = "failed"]
              /\ UNCHANGED <<program, logs>>
    /\ UNCHANGED logsStore
    /\ UNCHANGED outsideComplete

\* The onComplete of the App as the session meets it: some time after a call
\* it reaches setActiveWorkout(null).  Its steps over the stores, which the
\* session does not read, are saveWorkoutLog and loadData in SpecSessionApp.
onCompleteEnds ==
  /\ session.mounted /\ session.onComplete # <<>>
  /\ session' = Unmounted(session)
  /\ UNCHANGED outsideSession

\* The session by itself.
NextSession ==
  \/ \E exercises \in SessionExercises : startWorkout(exercises)
  \/ SessionTick
  \/ RestTick
  \/ handleSetComplete
  \/ skipRest
  \/ Pause
  \/ Resume
  \/ FinishPaused
  \/ onClose
  \/ onCompleteEnds

SpecSession == InitSession /\ [][NextSession]_vars

\* The session together with the onComplete of the App, await by await.
NextSessionApp ==
  \/ \E exercises \in SessionExercises : startWorkout(exercises)
  \/ SessionTick
  \/ RestTick
  \/ handleSetComplete
  \/ skipRest
  \/ Pause
  \/ Resume
  \/ FinishPaused
  \/ onClose
  \/ saveWorkoutLog
  \/ loadData

SpecSessionApp == InitSession /\ [][NextSessionApp]_vars

\* The session of a user who never quits: no Finish & Save Progress and no
\* Discard & Quit.  A paused session is resumed (the overlay stays until
\* then), the rest interval fires whenever the session keeps coming back to
\* a running rest, and the user presses Complete Set whenever the button
\* keeps being offered.  Skip Rest may be pressed and need not be.
NextSessionFair ==
  \/ \E exercises \in SessionExercises : startWorkout(exercises)
  \/ SessionTick
  \/ RestTick
  \/ handleSetComplete
  \/ skipRest
  \/ Pause
  \/ Resume
  \/ onCompleteEnds

SpecSessionFair ==
  /\ InitSession
  /\ [][NextSessionFair]_vars
  /\ WF_vars(Resume)
  /\ SF_vars(RestTick)
  /\ SF_vars(handleSetComplete)

(***************************************************************************)
(* WorkoutSession of the earlier App (part_000), which has no pause.  The  *)
(* session interval is created by an effect with the dependency isResting, *)
(* whose cleanup clears timerRef and restTimerRef; the rest interval is    *)
(* created by handleSetComplete.  session.restTimerRef says whether the    *)
(* interval of that ref is still running.  A step is an event handler or a *)
(* timer callback with the render and the effects that follow it.          *)
(***************************************************************************)
InitSessionNoPause ==
  /\ variant = "utils.ts"
  /\ program0 = <<>>
  /\ weekly_targets = <<>>
  /\ items = <<>>
  /\ maps = <<>>
  /\ pc = "idle"
  /\ targetWeek = 0
  /\ w = 0
  /\ currentPrescription = 0
  /\ result = 0
  /\ ex = NoItem
  /\ formatted = <<>>
  /\ other = OtherIdle
  /\ programsStore = <<[id |-> 1, name |-> "A"]>>
  /\ programsKey = 2
  /\ logsStore = <<>>
  /\ program = LastProgram(programsStore)
  /\ logs = logsStore
  /\ isImporting = FALSE
  /\ alerts = <<>>
  /\ importCall = ImportIdle
  /\ isConfirmingDelete = FALSE
  /\ resetCall = "idle"
  /\ session = NoSession
  /\ dashboard = NoDashboard

\* The state of the mounted component (the useState and useRef calls).
MountedNoPause(exercises, date, calls) ==
  [mounted |-> TRUE, exercises |-> exercises, currentExerciseIndex |-> 0,
   currentSetIndex |-> 0, isResting |-> FALSE, restTimeLeft |-> 0,
   sessionTime |-> 0, exerciseTime |-> 0, workoutLog |-> NewWorkoutLog(exercises),
   onComplete |-> calls, date |-> date, restTimerRef |-> "null"]

\* The render after a step: when isResting has changed, the cleanup of the
\* effect runs, clearInterval(timerRef.current) and
\* clearInterval(restTimerRef.current), and the effect creates the session
\* interval again.
Rendered(before, after) ==
  IF after.isResting # before.isResting /\ after.restTimerRef = "running"
  THEN [after EXCEPT !.restTimerRef = "cleared"]
  ELSE after

\* startWorkout: the component of part_000 is mounted.
startWorkoutNoPause(exercises) ==
  /\ ~session.mounted /\ program # NoProgram
  /\ session.date < MaxSessions
  /\ session' = MountedNoPause(exercises, session.date + 1, session.onComplete)
  /\ UNCHANGED outsideSession

\* The callback of the session interval.
SessionCallback(s) ==
  [s EXCEPT !.sessionTime = @ + 1,
            !.exerciseTime = IF ~s.isResting THEN @ + 1 ELSE @]

\* The callback of the rest interval handleSetComplete has created.
RestCallback(s) ==
  IF s.restTimeLeft <= 1
  THEN EndRest([s EXCEPT !.restTimeLeft = 0, !.restTimerRef = "cleared"])
  ELSE [s EXCEPT !.restTimeLeft = @ - 1]

\* The intervals that are running.
RunningTimers(s) ==
  (IF s.sessionTime < MaxSessionTime THEN {"timerRef"} ELSE {})
    \cup (IF s.restTimerRef = "running" THEN {"restTimerRef"} ELSE {})

\* A running interval fires.
TimerFires ==
  /\ session.mounted
  /\ \E timer \in RunningTimers(session) :
       session' = Rendered(session, IF timer = "restTimerRef"
                                    THEN RestCallback(session)
                                    ELSE SessionCallback(session))
  /\ UNCHANGED outsideSession

\* handleSetComplete of part_000: the Complete Set button, shown while not
\* resting.
handleSetCompleteNoPause ==
  /\ session.mounted /\ ~session.isResting
  /\ Len(session.onComplete) < MaxCompleteCalls
  /\ LET logged == [session EXCEPT
                      !.workoutLog[session.currentExerciseIndex + 1]
                                  .sets[session.currentSetIndex + 1] =
                        [completed |-> TRUE, value |-> CurrentExercise.value]]
     IN session' = IF IsLastSet /\ IsLastExercise
                   THEN Finished(logged, TRUE)
                   ELSE Rendered(session,
                          [logged EXCEPT !.isResting = TRUE,
                                         !.restTimeLeft = CurrentExercise.rest_s,
                                         !.exerciseTime = 0,
                                         !.restTimerRef = "running"])
  /\ UNCHANGED outsideSession

\* skipRest of part_000: the Skip Rest button, shown while resting.
skipRestNoPause ==
  /\ session.mounted /\ session.isResting
  /\ session' = Rendered(session,
                  EndRest([session EXCEPT
                             !.restTimerRef = IF @ = "null" THEN @ ELSE "cleared"]))
  /\ UNCHANGED outsideSession

\* The X of the header: if (confirm("Quit workout? ...")) onClose()
Quit ==
  /\ session.mounted
  /\ session' = Unmounted(session)
  /\ UNCHANGED outsideSession

NextSessionNoPause ==
  \/ \E exercises \in SessionExercises : startWorkoutNoPause(exercises)
  \/ TimerFires
  \/ handleSetCompleteNoPause
  \/ skipRestNoPause
  \/ Quit
  \/ saveWorkoutLog
  \/ loadData

\* The intervals that are running keep firing.
SpecSessionNoPause ==
  /\ InitSessionNoPause
  /\ [][NextSessionNoPause]_vars
  /\ WF_vars(TimerFires)

(***************************************************************************)
(* The dashboard of App.tsx for the active program: the header, the Start  *)
(* Now button and the cards of the weekly schedule.  program0 is the       *)
(* weekly_targets of the program and dashboard.duration_weeks its          *)
(* duration_weeks; dashboard.activeWorkout is the App state of that name.  *)
(***************************************************************************)
MaxDuration == 3
MaxLogs == 6

\* Math.ceil(n / 3)
CeilThird(n) == (n + 2) \div 3

\* Math.min(a, b)
Min(a, b) == IF a <= b THEN a ELSE b

\* x || 1 for a number x
OrOne(x) == IF x = 0 THEN 1 ELSE x

\* The week of the header:
\* Math.min(program.duration_weeks, Math.ceil(logs.length / 3) || 1)
HeaderWeek == Min(dashboard.duration_weeks, OrOne(CeilThird(Len(logs))))

\* const currentWeek =
\*   Math.min(program.duration_weeks, Math.ceil((logs.length + 1) / 3) || 1)
CurrentWeek == Min(dashboard.duration_weeks, OrOne(CeilThird(Len(logs) + 1)))

\* const prescription = calculatePrescriptionForWeek(program, currentWeek)
Prescription == calculatePrescriptionForWeek(variant, program0, CurrentWeek)

\* Object.keys(prescription), in the order of insertion
Keys(prescription) ==
  LET Has(d) == d \in DOMAIN prescription IN SelectSeq(DayOrder, Has)

\* The stored logs an earlier visit has left.
StoredLogs(n) == [i \in 1..n |-> [id |-> i]]

InitDashboard ==
  /\ variant = "utils"
  /\ program0 \in StoredPrograms
  /\ LET st == LoadProgram(program0, 1, [items |-> <<>>, maps |-> <<>>, targets |-> <<>>])
     IN /\ weekly_targets = st.targets
        /\ items = st.items
        /\ maps = st.maps
  /\ pc = "idle"
  /\ targetWeek = 0
  /\ w = 0
  /\ currentPrescription = 0
  /\ result = 0
  /\ ex = NoItem
  /\ formatted = <<>>
  /\ other = OtherIdle
  /\ programsStore = <<[id |-> 1, name |-> "A"]>>
  /\ programsKey = 2
  /\ logsStore \in {StoredLogs(n) : n \in 0..MaxLogs}
  /\ program = LastProgram(programsStore)
  /\ logs = logsStore
  /\ isImporting = FALSE
  /\ alerts = <<>>
  /\ importCall = ImportIdle
  /\ isConfirmingDelete = FALSE
  /\ resetCall = "idle"
  /\ session = NoSession
  /\ \E duration_weeks \in 1..MaxDuration :
       dashboard = [duration_weeks |-> duration_weeks, activeWorkout |-> [kind |-> "null"]]

\* startWorkout(week, day, exercises): setActiveWorkout({ week, day, exercises }).
\* A day or a list that is undefined is kept as undefined.
ActiveWorkout(week, day, exercises) ==
  [kind |-> "object", week |-> week, day |-> day, exercises |-> exercises]

\* What the steps of the dashboard leave alone.
outsideStart ==
  <<engineVars, formatVars, otherVars, appVars, resetVars, sessionVars>>

\* Start Now: const day = Object.keys(prescription)[0];
\* startWorkout(currentWeek, day, prescription[day])
StartNow ==
  /\ program # NoProgram /\ dashboard.activeWorkout.kind = "null"
  /\ LET keys == Keys(Prescription)
     IN dashboard' =
          [dashboard EXCEPT !.activeWorkout =
             IF keys = <<>>
             THEN ActiveWorkout(CurrentWeek, "undefined", [t |-> "undefined"])
             ELSE ActiveWorkout(CurrentWeek, keys[1],
                                [t |-> "array", v |-> Prescription[keys[1]]])]
  /\ UNCHANGED outsideStart

\* A card of the weekly schedule: one per entry of Object.entries(prescription),
\* onClick={() => startWorkout(currentWeek, day, exercises)}
ScheduleCard(day) ==
  /\ program # NoProgram /\ dashboard.activeWorkout.kind = "null"
  /\ day \in DOMAIN Prescription
  /\ dashboard' =
       [dashboard EXCEPT !.activeWorkout =
          ActiveWorkout(CurrentWeek, day, [t |-> "array", v |-> Prescription[day]])]
  /\ UNCHANGED outsideStart

\* onClose of the session: setActiveWorkout(null)
CloseWorkout ==
  /\ dashboard.activeWorkout.kind = "object"
  /\ dashboard' = [dashboard EXCEPT !.activeWorkout = [kind |-> "null"]]
  /\ UNCHANGED outsideStart

\* onComplete of the session: saveWorkoutLog(log), loadData, setActiveWorkout(null)
WorkoutSaved ==
  /\ dashboard.activeWorkout.kind = "object"
  /\ Len(logsStore) < MaxLogs
  /\ logsStore' = Append(logsStore, [id |-> Len(logsStore) + 1])
  /\ logs' = logsStore'
  /\ dashboard' = [dashboard EXCEPT !.activeWorkout = [kind |-> "null"]]
  /\ UNCHANGED <<programsStore, programsKey, program, isImporting, alerts, importCall>>
  /\ UNCHANGED <<engineVars, formatVars, otherVars, resetVars, sessionVars>>

NextDashboard ==
  \/ StartNow
  \/ \E day \in {DayOrder[i] : i \in 1..Len(DayOrder)} : ScheduleCard(day)
  \/ CloseWorkout
  \/ WorkoutSaved

SpecDashboard == InitDashboard /\ [][NextDashboard]_vars

(***************************************************************************)
(* Vocabulary of the properties.                                           *)
(***************************************************************************)
\* The entry the resolver uses for week wk of the imported program, if any.
HasEntry(wk) == Find(program0, wk) # 0
EntryOf(wk) == program0[Find(program0, wk)]
IsSnapshotWeek(wk) == HasEntry(wk) /\ EntryOf(wk).hasDP
IsDeltaWeek(wk) == HasEntry(wk) /\ ~EntryOf(wk).hasDP /\ EntryOf(wk).hasDelta

\* The documented key grammar: the recognized suffixes, most specific first.
Suffixes ==
  <<[suffix |-> <<"hold", "seconds", "each", "side">>, field |-> "hold_seconds_each_side"],
    [suffix |-> <<"reps", "each", "side">>, field |-> "reps_each_side"],
    [suffix |-> <<"hold", "seconds">>, field |-> "hold_seconds"],
    [suffix |-> <<"reps">>, field |-> "reps"],
    [suffix |-> <<"sets">>, field |-> "sets"]>>

\* Key = name ++ suffix number i.
HasForm(key, name, i) == key = name \o Suffixes[i].suffix

\* The integer value of the pair of deltas whose key is key.
DeltaOf(deltas, key) ==
  parseInt(deltas[CHOOSE k \in 1..Len(deltas) : deltas[k].key = key].value)
HasIntKey(deltas, key) ==
  \E k \in 1..Len(deltas) : deltas[k].key = key /\ parseInt(deltas[k].value).t = "number"

\* An absent field read as 0.
AbsentAsZero(x) == IF x.t = "undefined" THEN Num(0) ELSE x

\* Names of the items of a prescription given by value.
NamesIn(dpv) == UNION { {dpv[d][j].name : j \in 1..Len(dpv[d])} : d \in DOMAIN dpv }

\* The loop is about to process a delta entry, and does.
DeltaStep ==
  /\ pc = "loop" /\ w <= targetWeek /\ IsDeltaWeek(w)
  /\ w' = w + 1

(***************************************************************************)
(* C1  Delta accumulation (current utils): with a snapshot at week s and,  *)
(* for every week of s+1..W, a delta entry giving '<ex>_hold_seconds' an   *)
(* integer, every item named <ex> is returned with hold_seconds equal to   *)
(* its snapshot value plus the sum of these deltas.                        *)
(***************************************************************************)
RECURSIVE SumHoldDeltas(_, _, _)
SumHoldDeltas(name, from, to) ==
  IF from > to THEN 0
  ELSE DeltaOf(EntryOf(from).deltas, name \o <<"hold", "seconds">>).v
         + SumHoldDeltas(name, from + 1, to)

C1_Case(s, name) ==
  /\ IsSnapshotWeek(s)
  /\ name \in NamesIn(EntryOf(s).dp)
  /\ \A wk \in (s + 1)..targetWeek :
       IsDeltaWeek(wk) /\ HasIntKey(EntryOf(wk).deltas, name \o <<"hold", "seconds">>)

C1_DeltaAccumulation ==
  (pc = "done" /\ variant = "utils") =>
    \A s \in 1..targetWeek : \A name \in NamesIn(Result) :
      C1_Case(s, name) =>
        \A d \in DOMAIN Result : \A j \in 1..Len(Result[d]) :
          LET snap == EntryOf(s).dp[d][j]
          IN (snap.name = name /\ snap.hold_seconds.t = "number") =>
               Result[d][j].hold_seconds =
                 Num(snap.hold_seconds.v + SumHoldDeltas(name, s + 1, targetWeek))

(***************************************************************************)
(* C2  Longest suffix first (current utils): a key n_hold_seconds_each_side,*)
(* n_reps_each_side or n_hold_seconds with an integer value adds the value *)
(* to that field of every item named n when the delta entry is processed,  *)
(* and a field that no key of the mapping names for n keeps its value.     *)
(***************************************************************************)
C2_Step ==
  \A d \in DOMAIN Cur : \A j \in 1..Len(Cur[d]) : \A i \in 1..3 :
    LET n == Cur[d][j].name
        deltas == EntryOf(w).deltas
        f == Suffixes[i].field
    IN HasIntKey(deltas, n \o Suffixes[i].suffix) =>
         /\ Cur'[d][j][f] =
              JsAdd(AbsentAsZero(Cur[d][j][f]), DeltaOf(deltas, n \o Suffixes[i].suffix))
         /\ \A i2 \in 1..Len(Suffixes) :
              ~(\E k \in 1..Len(deltas) : HasForm(deltas[k].key, n, i2)) =>
                Cur'[d][j][Suffixes[i2].field] = Cur[d][j][Suffixes[i2].field]

C2_LongestSuffixFirst == [][(DeltaStep /\ variant = "utils") => C2_Step]_vars

(***************************************************************************)
(* C3  Names with underscores (current utils): for an item whose name n    *)
(* contains an underscore, a key n_reps or n_sets with an integer value    *)
(* adds the value to reps or sets of that item (a number, or absent and    *)
(* read as 0), and an item whose name is a proper prefix of n, and which   *)
(* no key of the mapping names, is left as it was.                         *)
(***************************************************************************)
IsProperPrefix(p, n) == Len(p) < Len(n) /\ SubSeq(n, 1, Len(p)) = p

NamedByAKey(deltas, name) ==
  \E k \in 1..Len(deltas) : \E i \in 1..Len(Suffixes) : HasForm(deltas[k].key, name, i)

C3_Step ==
  \A d \in DOMAIN Cur : \A j \in 1..Len(Cur[d]) : \A i \in {4, 5} :
    LET n == Cur[d][j].name
        key == n \o Suffixes[i].suffix
        f == Suffixes[i].field
        deltas == EntryOf(w).deltas
    IN (Len(n) >= 2 /\ HasIntKey(deltas, key) /\ Cur[d][j][f].t \in {"number", "undefined"}) =>
         /\ Cur'[d][j][f] = JsAdd(AbsentAsZero(Cur[d][j][f]), DeltaOf(deltas, key))
         /\ \A d2 \in DOMAIN Cur : \A j2 \in 1..Len(Cur[d2]) :
              (IsProperPrefix(Cur[d2][j2].name, n) /\ ~NamedByAKey(deltas, Cur[d2][j2].name))
                => Cur'[d2][j2] = Cur[d2][j2]

C3_UnderscoreNames == [][(DeltaStep /\ variant = "utils") => C3_Step]_vars

C3_Witness ==
  /\ pc = "done" /\ variant = "utils"
  /\ \E d \in DOMAIN Result : \E j1, j2 \in 1..Len(Result[d]) :
       /\ Result[d][j1].name = <<"push", "up">> /\ Result[d][j1].reps = Num(12)
       /\ Result[d][j1].sets = Num(1)
       /\ Result[d][j2].name = <<"push">> /\ Result[d][j2].reps = Num(5)

(***************************************************************************)
(* C4  Snapshot reset: when the only entry of weekly_targets is            *)
(* {week: 1, day_prescription: P}, the call returns a value equal to P,    *)
(* whatever the target week.                                               *)
(***************************************************************************)
C4_Case ==
  /\ Len(program0) = 1
  /\ program0[1].week = 1 /\ program0[1].hasDP /\ ~program0[1].hasDelta

C4_SnapshotReset == (pc = "done" /\ C4_Case) => Result = program0[1].dp

C4_Witness ==
  /\ pc = "done" /\ C4_Case /\ targetWeek > 1
  /\ DOMAIN Result = {"monday", "friday"}

(***************************************************************************)
(* C5  Re-snapshot independence: when the entry of week s carries a        *)
(* day_prescription and s <= W, the result for W is the result for W of    *)
(* the program without its entries of weeks below s.  Two programs that    *)
(* differ only in entries of weeks below s have the same program without   *)
(* them, hence the same result.                                            *)
(***************************************************************************)
AtOrAfter(s, e) == e.week >= s
EntriesFrom(pv, s) ==
  LET Keep(e) == AtOrAfter(s, e) IN SelectSeq(pv, Keep)

C5_ResnapshotIndependence ==
  pc = "done" =>
    \A s \in 1..targetWeek :
      IsSnapshotWeek(s) =>
        Result = calculatePrescriptionForWeek(variant, EntriesFrom(program0, s), targetWeek)

C5_Witness ==
  /\ pc = "done"
  /\ \E s \in 2..targetWeek :
       /\ IsSnapshotWeek(s) /\ IsSnapshotWeek(s - 1)
       /\ "friday" \in DOMAIN EntryOf(s - 1).dp
       /\ "friday" \notin DOMAIN Result

(***************************************************************************)
(* C6  Gap tolerance: a week without entry changes nothing, so after the   *)
(* weeks below w the working prescription is what replaying only the       *)
(* present weeks gives: the result of the program whose present week       *)
(* numbers are renumbered 1, 2, 3, ... in ascending order, resolved at the *)
(* number of present weeks below w.                                        *)
(***************************************************************************)
PresentWeeks == {program0[i].week : i \in 1..Len(program0)}
PresentBelow(wk) == Cardinality({x \in PresentWeeks : x < wk})
Collapsed == [i \in 1..Len(program0) |->
                [program0[i] EXCEPT !.week = PresentBelow(@ + 1)]]

C6_GapTolerance ==
  pc \in {"loop", "done"} =>
    Cur = calculatePrescriptionForWeek(variant, Collapsed, PresentBelow(w))

C6_Witness ==
  /\ pc = "done" /\ targetWeek = 3
  /\ IsSnapshotWeek(1) /\ ~HasEntry(2) /\ IsDeltaWeek(3)
  /\ Result # EntryOf(1).dp

(***************************************************************************)
(* C7  Non-mutation: program.weekly_targets read through the heap is, in   *)
(* every state and so after any number of calls, the program as imported,  *)
(* and the working/returned prescription is a day mapping of its own whose *)
(* items are none of the items of the stored snapshots.                    *)
(***************************************************************************)
ItemAddrs(a) == UNION { {maps[a][d][j] : j \in 1..Len(maps[a][d])} : d \in DOMAIN maps[a] }
ProgramMaps ==
  {weekly_targets[i].day_prescription : i \in 1..Len(weekly_targets)} \ {0}
ProgramItems == UNION { ItemAddrs(a) : a \in ProgramMaps }

C7_NonMutation ==
  /\ ProgramValue = program0
  /\ pc \in {"loop", "done"} =>
       /\ currentPrescription \notin ProgramMaps
       /\ ItemAddrs(currentPrescription) \cap ProgramItems = {}

C7_Witness ==
  /\ pc = "done" /\ result = currentPrescription
  /\ \E wk \in 2..targetWeek : IsSnapshotWeek(wk - 1) /\ IsDeltaWeek(wk)
  /\ Result # <<>> /\ \A s \in 1..targetWeek : IsSnapshotWeek(s) => Result # EntryOf(s).dp

(***************************************************************************)
(* C8  Formatter precedence: the returned string is that of the first      *)
(* present field in the order reps, reps_each_side, hold_seconds,          *)
(* hold_seconds_each_side, "0" when none is present; a field holding 0 is  *)
(* present.  Every call returns.                                           *)
(***************************************************************************)
Decimal(n) ==
  CASE n = 0 -> <<"0">>
    [] n = 12 -> <<"1", "2">>
    [] n = 20 -> <<"2", "0">>

IsPresent(x) == x.t # "undefined"

FirstPresentTarget(item) ==
  IF IsPresent(item.reps) THEN Decimal(item.reps.v)
  ELSE IF IsPresent(item.reps_each_side)
       THEN Decimal(item.reps_each_side.v) \o <<" ", "(", "e", "a", "c", "h", ")">>
  ELSE IF IsPresent(item.hold_seconds)
       THEN Decimal(item.hold_seconds.v) \o <<"s">>
  ELSE IF IsPresent(item.hold_seconds_each_side)
       THEN Decimal(item.hold_seconds_each_side.v) \o <<"s", " ", "(", "e", "a", "c", "h", ")">>
  ELSE <<"0">>

C8_FormatterPrecedence ==
  /\ formatted # <<>> => formatted = FirstPresentTarget(ex)
  /\ formatted = <<>> => ENABLED Format

C8_Witness ==
  /\ formatted = <<"0">>
  /\ ex.reps = Num(0) /\ ex.hold_seconds = Num(20) /\ ex.reps_each_side = Num(12)

(***************************************************************************)
(* C9  Malformed delta value (current utils): a call never returns a       *)
(* prescription holding a field computed from a value that is not a        *)
(* number.                                                                 *)
(***************************************************************************)
C9_MalformedDeltaFails ==
  (pc = "done" /\ variant = "utils") =>
    \A d \in DOMAIN Result : \A j \in 1..Len(Result[d]) : \A f \in NumFields :
      Result[d][j][f].t # "NaN"

(***************************************************************************)
(* C10  Absent field counts as 0 (current utils): when a key matches an    *)
(* item, the field it names becomes 0 + delta when it was absent and       *)
(* old value + delta when it was present.                                  *)
(***************************************************************************)
C10_Step ==
  \A d \in DOMAIN Cur : \A j \in 1..Len(Cur[d]) : \A k \in 1..Len(EntryOf(w).deltas) :
    LET key == EntryOf(w).deltas[k].key
        delta == parseInt(EntryOf(w).deltas[k].value)
        f == FieldOfKey(key)
    IN (Cur[d][j].name = ExerciseName(key) /\ f # "none") =>
         Cur'[d][j][f] = IF IsPresent(Cur[d][j][f])
                         THEN JsAdd(Cur[d][j][f], delta)
                         ELSE JsAdd(Num(0), delta)

C10_AbsentCountsAsZero == [][(DeltaStep /\ variant = "utils") => C10_Step]_vars

(***************************************************************************)
(* C11  Frame of a delta week: processing a delta entry keeps the set of   *)
(* days, the number and order of the items of every day and every item's   *)
(* name; a field of an item changes only if some key of the mapping is the *)
(* item's name followed by the suffix of that field (so an item matching   *)
(* no key keeps all its fields, and weight_kg and distance_m never change).*)
(***************************************************************************)
NamedField(deltas, name, f) ==
  \E k \in 1..Len(deltas) : \E i \in 1..Len(Suffixes) :
    HasForm(deltas[k].key, name, i) /\ Suffixes[i].field = f

C11_Step ==
  /\ DOMAIN Cur' = DOMAIN Cur
  /\ \A d \in DOMAIN Cur :
       /\ Len(Cur'[d]) = Len(Cur[d])
       /\ \A j \in 1..Len(Cur[d]) :
            /\ Cur'[d][j].name = Cur[d][j].name
            /\ \A f \in NumFields :
                 ~NamedField(EntryOf(w).deltas, Cur[d][j].name, f) =>
                   Cur'[d][j][f] = Cur[d][j][f]

C11_DeltaFrame == [][DeltaStep => C11_Step]_vars

(***************************************************************************)
(* C12  Deltas against an empty working prescription are no-ops: when no   *)
(* entry with week <= targetWeek carries a day_prescription the working    *)
(* prescription stays the empty mapping, every delta entry is processed    *)
(* without an error, and the result is the empty mapping; and processing   *)
(* an entry with neither field leaves the working prescription unchanged.  *)
(***************************************************************************)
NoSnapshotUpTo(W) ==
  \A i \in 1..Len(program0) : program0[i].week <= W => ~program0[i].hasDP

IsEmptyEntryWeek(wk) == HasEntry(wk) /\ ~EntryOf(wk).hasDP /\ ~EntryOf(wk).hasDelta

C12_State ==
  (pc \in {"loop", "done"} /\ NoSnapshotUpTo(targetWeek)) =>
    /\ Cur = <<>>
    /\ (pc = "loop" /\ w <= targetWeek /\ IsDeltaWeek(w)) => ENABLED DeltaWeek
    /\ pc = "done" => Result = <<>>

C12_Step ==
  (pc = "loop" /\ w <= targetWeek /\ IsEmptyEntryWeek(w) /\ w' = w + 1) => Cur' = Cur

C12_EmptyPrescriptionNoOp == [](C12_State) /\ [][C12_Step]_vars

C12_Witness ==
  /\ pc = "done" /\ NoSnapshotUpTo(targetWeek) /\ Result = <<>>
  /\ \E wk \in 1..targetWeek : IsDeltaWeek(wk)
  /\ \E wk \in 1..targetWeek : IsEmptyEntryWeek(wk)

(***************************************************************************)
(* C13  Week order, not storage order: for a program whose week values are *)
(* pairwise distinct, the returned prescription is the one the resolver    *)
(* computes for every permutation of the weekly_targets array.             *)
(***************************************************************************)
DistinctWeeks ==
  \A i, j \in 1..Len(program0) : program0[i].week = program0[j].week => i = j

Perms(n) == {p \in [1..n -> 1..n] : \A i, j \in 1..n : p[i] = p[j] => i = j}

Permuted(p) == [i \in 1..Len(program0) |-> program0[p[i]]]

C13_StorageOrder ==
  (pc = "done" /\ DistinctWeeks) =>
    \A p \in Perms(Len(program0)) :
      calculatePrescriptionForWeek(variant, Permuted(p), targetWeek) = Result

\* A delta entry stored before the snapshot it modifies.
C13_Witness ==
  /\ pc = "done" /\ DistinctWeeks /\ Len(program0) = 2 /\ targetWeek >= 2
  /\ program0[1].week = 2 /\ ~program0[1].hasDP /\ program0[1].hasDelta
  /\ program0[2].week = 1 /\ program0[2].hasDP
  /\ \E d \in DOMAIN Result : \E j \in 1..Len(Result[d]) :
       Result[d][j] # program0[2].dp[d][j]

(***************************************************************************)
(* C14  Duplicate week numbers: the returned prescription is the one the   *)
(* resolver computes for the program without every entry whose week value  *)
(* occurs earlier in the array, so only the first entry of a week is       *)
(* applied.                                                                *)
(***************************************************************************)
IsFirstOfWeek(i) == \A j \in 1..(i - 1) : program0[j].week # program0[i].week

RECURSIVE FirstsFrom(_)
FirstsFrom(i) ==
  IF i > Len(program0) THEN <<>>
  ELSE IF IsFirstOfWeek(i) THEN <<program0[i]>> \o FirstsFrom(i + 1)
  ELSE FirstsFrom(i + 1)

C14_FirstDuplicateWins ==
  pc = "done" =>
    Result = calculatePrescriptionForWeek(variant, FirstsFrom(1), targetWeek)

\* Two different entries for the same week, both within the target week.
C14_Witness ==
  /\ pc = "done" /\ Len(program0) = 2
  /\ program0[1].week = program0[2].week /\ program0[1].week <= targetWeek
  /\ program0[1].hasDP /\ program0[2].hasDP /\ program0[1].dp # program0[2].dp
  /\ Result = program0[1].dp

(***************************************************************************)
(* C19  Conflicting week entry: processing an entry that carries both      *)
(* day_prescription and delta_from_previous_week makes the working         *)
(* prescription a copy of the snapshot, built of objects of its own; the   *)
(* delta mapping of the entry is not applied.                              *)
(***************************************************************************)
IsBothWeek(wk) == HasEntry(wk) /\ EntryOf(wk).hasDP /\ EntryOf(wk).hasDelta

C19_Step ==
  (pc = "loop" /\ w <= targetWeek /\ IsBothWeek(w) /\ w' = w + 1) =>
    /\ Cur' = EntryOf(w).dp
    /\ currentPrescription' \notin ProgramMaps
    /\ ItemAddrs(currentPrescription)' \cap ProgramItems = {}

C19_SnapshotPrecedence == [][C19_Step]_vars

\* The entry's deltas name an item of its snapshot and hold integers, and the
\* call has returned the snapshot.
C19_Witness ==
  /\ pc = "done" /\ targetWeek >= 1 /\ IsBothWeek(targetWeek)
  /\ \E d \in DOMAIN Result : \E j \in 1..Len(Result[d]) :
       \E f \in NumFields :
         /\ NamedField(EntryOf(targetWeek).deltas, Result[d][j].name, f)
         /\ HasIntKey(EntryOf(targetWeek).deltas,
                      EntryOf(targetWeek).deltas[1].key)
  /\ Result = EntryOf(targetWeek).dp

(***************************************************************************)
(* C20  Positive sets (current utils): when every item of every snapshot   *)
(* of the program has sets >= 1, every item of the returned prescription   *)
(* has a positive integer for sets.                                        *)
(***************************************************************************)
IsPositive(x) == x.t = "number" /\ x.v >= 1

SnapshotSetsPositive ==
  \A i \in 1..Len(program0) : program0[i].hasDP =>
    \A d \in DOMAIN program0[i].dp : \A j \in 1..Len(program0[i].dp[d]) :
      IsPositive(program0[i].dp[d][j].sets)

C20_PositiveSets ==
  (pc = "done" /\ variant = "utils" /\ SnapshotSetsPositive) =>
    \A d \in DOMAIN Result : \A j \in 1..Len(Result[d]) : IsPositive(Result[d][j].sets)

(***************************************************************************)
(* C15  Concurrent invocations: however the loop iterations of two         *)
(* invocations on the same program interleave, each invocation returns the *)
(* prescription the resolver computes for its own target week, and the     *)
(* program read through the heap is the imported program in every state.   *)
(***************************************************************************)
C15_ConcurrentInvocations ==
  /\ pc = "done" =>
       Result = calculatePrescriptionForWeek(variant, program0, targetWeek)
  /\ other.pc = "done" =>
       OtherResult = calculatePrescriptionForWeek(variant, program0, other.targetWeek)
  /\ ProgramValue = program0

\* Both have returned a prescription changed by a delta, and the objects of
\* their results were allocated in alternation.
C15_Witness ==
  /\ pc = "done" /\ other.pc = "done"
  /\ targetWeek = 2 /\ other.targetWeek = 2
  /\ IsSnapshotWeek(1) /\ IsDeltaWeek(2)
  /\ Result # EntryOf(1).dp
  /\ result < other.result
  /\ \E a \in ItemAddrs(result) : \A b \in ItemAddrs(other.result) : a > b

(***************************************************************************)
(* C16  Atomic import: when handleImport has ended, either the imported    *)
(* program is stored and is the active program, in the store and in the    *)
(* App state, or the stored programs and the App's program and logs are    *)
(* what they were at the call; and when the text was malformed or a step   *)
(* failed it is the second, and the user was told the format is invalid.   *)
(***************************************************************************)
ImportedIsActive ==
  /\ program # NoProgram
  /\ program.name = importCall.parsed.name
  /\ importCall.parsed.hasId => program.id = importCall.parsed.id
  /\ program = LastProgram(programsStore)
  /\ \A i \in 1..Len(importCall.before.programsStore) :
       importCall.before.programsStore[i] # program
  /\ LET Old(r) == r # program
     IN SelectSeq(programsStore, Old) = importCall.before.programsStore

ImportHadNoEffect ==
  /\ programsStore = importCall.before.programsStore
  /\ program = importCall.before.program
  /\ logs = importCall.before.logs

C16_AtomicImport ==
  importCall.pc = "done" =>
    /\ ImportedIsActive \/ ImportHadNoEffect
    /\ importCall.failed =>
         /\ ImportHadNoEffect
         /\ Len(alerts) > 0 /\ alerts[Len(alerts)] = InvalidJson

(***************************************************************************)
(* C17  Session clock: while the session is mounted and not paused the     *)
(* session interval can fire, resting or not, and a step changes           *)
(* sessionTime only by adding 1 in a state that is not paused; exerciseTime*)
(* grows only by 1, in a state that is neither paused nor resting, and     *)
(* together with sessionTime.                                              *)
(***************************************************************************)
SameSession == session.mounted /\ session'.mounted

C17_State ==
  (session.mounted /\ ~session.isPaused /\ session.sessionTime < MaxSessionTime) =>
    ENABLED SessionTick

C17_Step ==
  SameSession =>
    /\ session'.sessionTime # session.sessionTime =>
         /\ ~session.isPaused
         /\ session'.sessionTime = session.sessionTime + 1
         /\ ~session.isResting => session'.exerciseTime = session.exerciseTime + 1
    /\ session'.exerciseTime > session.exerciseTime =>
         /\ ~session.isPaused /\ ~session.isResting
         /\ session'.exerciseTime = session.exerciseTime + 1
         /\ session'.sessionTime = session.sessionTime + 1

C17_SessionClock == [](C17_State) /\ [][C17_Step]_vars

\* A rest paused after the clock has run through part of it: the exercise
\* clock was reset at the start of the rest and has not moved since.
C17_Witness ==
  /\ session.mounted /\ session.isPaused /\ session.isResting
  /\ session.restTimeLeft < CurrentExercise.rest_s
  /\ session.sessionTime >= 2 /\ session.exerciseTime = 0

(***************************************************************************)
(* C18  Rest countdown: a step lowers restTimeLeft only in a state that is *)
(* resting and not paused; and while a rest is paused, up to and including *)
(* the step that resumes it, restTimeLeft, currentSetIndex and             *)
(* currentExerciseIndex keep their values.                                 *)
(***************************************************************************)
C18_Step ==
  SameSession =>
    /\ (session'.restTimeLeft < session.restTimeLeft /\ session.isResting) =>
         ~session.isPaused
    /\ (session'.restTimeLeft < session.restTimeLeft /\ ~session.isResting) =>
         session'.isResting
    /\ (session.isResting /\ session.isPaused) =>
         /\ session'.restTimeLeft = session.restTimeLeft
         /\ session'.currentSetIndex = session.currentSetIndex
         /\ session'.currentExerciseIndex = session.currentExerciseIndex

C18_RestCountdown == [][C18_Step]_vars

(***************************************************************************)
(* C21  Days of the result: the day names of the returned prescription are *)
(* those of the day_prescription of the applied entry with the greatest    *)
(* week <= targetWeek that carries a snapshot, none when there is no such  *)
(* entry; and a delta step keeps the day names of the working prescription.*)
(***************************************************************************)
SnapshotWeeksUpTo(W) == {wk \in 1..W : IsSnapshotWeek(wk)}

C21_State ==
  pc = "done" =>
    IF SnapshotWeeksUpTo(targetWeek) = {}
    THEN DOMAIN Result = {}
    ELSE DOMAIN Result = DOMAIN EntryOf(MaxOf(SnapshotWeeksUpTo(targetWeek))).dp

C21_Step == DeltaStep => DOMAIN Cur' = DOMAIN Cur

C21_ResultDays == [](C21_State) /\ [][C21_Step]_vars

\* A two-day snapshot replaced by a one-day snapshot, then a delta entry:
\* the result has the one day only.
C21_Witness ==
  /\ pc = "done" /\ targetWeek = 3
  /\ IsSnapshotWeek(1) /\ IsSnapshotWeek(2) /\ IsDeltaWeek(3)
  /\ DOMAIN EntryOf(1).dp = {"monday", "friday"}
  /\ DOMAIN Result = {"monday"}
  /\ Result # EntryOf(2).dp

(***************************************************************************)
(* C22  Unknown exercise in a delta key (current utils): the keys whose    *)
(* extracted exercise name is the name of no item of the working           *)
(* prescription have no effect: a delta step yields the items that the     *)
(* mapping without these keys yields, whatever their value strings are,    *)
(* and the step is possible also when such a value is no integer.          *)
(***************************************************************************)
RECURSIVE KnownKeysFrom(_, _, _)
KnownKeysFrom(deltas, names, k) ==
  IF k > Len(deltas) THEN <<>>
  ELSE IF ExerciseName(deltas[k].key) \in names
  THEN <<deltas[k]>> \o KnownKeysFrom(deltas, names, k + 1)
  ELSE KnownKeysFrom(deltas, names, k + 1)

\* The entry of week wk has a key of an unknown name whose value is no integer.
HasUnknownMalformedKey(wk) ==
  \E k \in 1..Len(EntryOf(wk).deltas) :
    /\ parseInt(EntryOf(wk).deltas[k].value) = NaN
    /\ ExerciseName(EntryOf(wk).deltas[k].key) \notin NamesIn(Cur)

C22_State ==
  (variant = "utils" /\ pc = "loop" /\ w <= targetWeek /\ IsDeltaWeek(w)) =>
    (HasUnknownMalformedKey(w) => ENABLED DeltaWeek)

C22_Step ==
  (DeltaStep /\ variant = "utils") =>
    \A d \in DOMAIN Cur : \A j \in 1..Len(Cur[d]) :
      Cur'[d][j] =
        MapItem(variant, Cur[d][j],
                KnownKeysFrom(EntryOf(w).deltas, NamesIn(Cur), 1), 1)

C22_UnknownExerciseNoOp == [](C22_State) /\ [][C22_Step]_vars

\* The last entry had a key with a value that is no integer and a name that
\* no item carries, and the call has returned: no field holds NaN.
C22_Witness ==
  /\ variant = "utils" /\ pc = "done" /\ targetWeek >= 2 /\ IsDeltaWeek(targetWeek)
  /\ Result # <<>>
  /\ \E k \in 1..Len(EntryOf(targetWeek).deltas) :
       /\ parseInt(EntryOf(targetWeek).deltas[k].value) = NaN
       /\ ExerciseName(EntryOf(targetWeek).deltas[k].key) \notin NamesIn(Result)
  /\ \A d \in DOMAIN Result : \A j \in 1..Len(Result[d]) : \A f \in NumFields :
       Result[d][j][f] # NaN


\* A step of saveProgram that stored its program.
SavedStep == importCall.pc = "saveProgram" /\ importCall'.pc = "getActiveProgram"

\* A step that ends a clearAllData, with success or with failure.
ClearedStep == resetCall = "clearAllData" /\ resetCall' = "done"
ClearFailedStep == resetCall = "clearAllData" /\ resetCall' = "failed"

\* C23: what getActiveProgram returns (the last record of the programs store)
\* is the program saved most recently since the last clearAllData, and null
\* when none was saved since; a clearAllData that succeeds empties the
\* programs and the logs together, and handleReset sets program to null and
\* logs to [] exactly then, a failed clear leaving stores and state alone.
C23_Step ==
  /\ SavedStep =>
       /\ LastProgram(programsStore').name = importCall.parsed.name
       /\ \A i \in 1..Len(programsStore) : programsStore[i] # LastProgram(programsStore')
  /\ ClearedStep =>
       /\ programsStore' = <<>> /\ logsStore' = <<>>
       /\ LastProgram(programsStore') = NoProgram
       /\ program' = NoProgram /\ logs' = <<>>
  /\ ClearFailedStep => UNCHANGED <<programsStore, logsStore, program, logs>>
  /\ ~(SavedStep \/ ClearedStep) => LastProgram(programsStore') = LastProgram(programsStore)
C23_ActiveProgram == [][C23_Step]_vars


\* currentExerciseIndex and currentSetIndex
Position(s) == <<s.currentExerciseIndex, s.currentSetIndex>>

\* A step that ends a rest.
RestEnds == session.isResting /\ ~session'.isResting

\* C24: in a mounted session currentExerciseIndex is an index of exercises
\* and currentSetIndex an index of the sets of the current exercise; a step
\* that ends a rest is the countdown reaching zero (not paused, restTimeLeft
\* becomes 0) or Skip Rest (restTimeLeft kept), it moves the position to the
\* next set, or to set 0 of the next exercise after the last set, and no
\* other step moves the position.
C24_State ==
  session.mounted =>
    /\ 0 <= session.currentExerciseIndex
    /\ session.currentExerciseIndex < Len(session.exercises)
    /\ 0 <= session.currentSetIndex
    /\ session.currentSetIndex < CurrentExercise.sets

C24_Step ==
  SameSession =>
    /\ RestEnds =>
         /\ Position(session') =
              IF IsLastSet THEN <<session.currentExerciseIndex + 1, 0>>
              ELSE <<session.currentExerciseIndex, session.currentSetIndex + 1>>
         /\ \/ session.restTimeLeft <= 1 /\ session'.restTimeLeft = 0 /\ ~session.isPaused
            \/ session'.restTimeLeft = session.restTimeLeft
         /\ ~(session'.restTimeLeft = 0 /\ session'.restTimeLeft = session.restTimeLeft)
    /\ Position(session') # Position(session) => RestEnds

C25_State ==
  \A i, j \in 1..Len(logsStore) : logsStore[i].date = logsStore[j].date => i = j

C25_Step ==
  (session.mounted /\ ~session'.mounted /\ session'.onComplete = session.onComplete) =>
    logsStore' = logsStore

C25_OneLogPerSession == [](C25_State) /\ [][C25_Step]_vars


\* A step in which finishWorkout hands a log to onComplete, and that log.
Handed == Len(session'.onComplete) = Len(session.onComplete) + 1
HandedLog == session'.onComplete[Len(session'.onComplete)]

\* C26: a log handed to onComplete with completed = true has one entry per
\* exercise of the prescription, in its order and under its name, each with
\* exactly `sets` slots, all of them completed, the set just completed
\* included, and its totalDurationSeconds is the sessionTime of that moment;
\* a log handed over from the pause overlay has completed = false.
C26_Step ==
  Handed =>
    /\ HandedLog.completed =>
         /\ Len(HandedLog.exercises) = Len(session.exercises)
         /\ \A i \in 1..Len(session.exercises) :
              /\ HandedLog.exercises[i].name = session.exercises[i].name
              /\ Len(HandedLog.exercises[i].sets) = session.exercises[i].sets
              /\ \A k \in 1..session.exercises[i].sets :
                   HandedLog.exercises[i].sets[k].completed
         /\ HandedLog.totalDurationSeconds = session.sessionTime
    /\ session.isPaused => ~HandedLog.completed

RECURSIVE CompletedFrom(_, _)
\* The number of completed slots of the entries i.. of a log's exercises.
CompletedFrom(entries, i) ==
  IF i > Len(entries) THEN 0
  ELSE Cardinality({k \in 1..Len(entries[i].sets) : entries[i].sets[k].completed})
         + CompletedFrom(entries, i + 1)

RECURSIVE SetsFrom(_, _)
\* The sum of sets over the exercises i.. of the prescription.
SetsFrom(exercises, i) ==
  IF i > Len(exercises) THEN 0 ELSE exercises[i].sets + SetsFrom(exercises, i + 1)

\* A log has been handed to onComplete with completed = true.
CompletedHanded(s) == \E i \in 1..Len(s.onComplete) : s.onComplete[i].completed

\* A step of Complete Set: it starts a rest or hands over the completed log.
CompleteStep ==
  /\ SameSession /\ ~session.isResting
  /\ session'.isResting \/ (Handed /\ HandedLog.completed)

\* C27: when the user never quits, resumes every pause and completes every
\* set that is shown, and the rest interval keeps firing, a mounted session
\* reaches a call of onComplete with completed = true, Skip Rest or not; up
\* to that call every Complete Set completes one more slot of the log, and
\* at the call the completed slots are as many as the sum of sets over the
\* exercises, so the call comes after exactly that many set completions.
C27_Step ==
  (CompleteStep /\ ~CompletedHanded(session)) =>
    /\ CompletedFrom(session'.workoutLog, 1) = CompletedFrom(session.workoutLog, 1) + 1
    /\ CompletedHanded(session') =>
         CompletedFrom(session'.workoutLog, 1) = SetsFrom(session.exercises, 1)
    /\ ~CompletedHanded(session') =>
         CompletedFrom(session'.workoutLog, 1) < SetsFrom(session.exercises, 1)

C28_StartedWorkout ==
  dashboard.activeWorkout.kind = "object" =>
    LET aw == dashboard.activeWorkout
        resolved == calculatePrescriptionForWeek(variant, program0, aw.week)
    IN /\ aw.week = CurrentWeek
       /\ aw.day \in DOMAIN resolved
       /\ aw.exercises.t = "array"
       /\ aw.exercises.v = resolved[aw.day]
       /\ aw.exercises.v # <<>>

\* C29: the week of the header is the week the weekly schedule and Start Now
\* pass to calculatePrescriptionForWeek, it lies in 1..duration_weeks, and a
\* step that adds a log does not lower it.
C29_State ==
  dashboard.duration_weeks >= 1 =>
    /\ HeaderWeek = CurrentWeek
    /\ HeaderWeek \in 1..dashboard.duration_weeks

C29_Step == Len(logs') >= Len(logs) => HeaderWeek' >= HeaderWeek

C29_HeaderWeek == [](C29_State) /\ [][C29_Step]_vars


\* C30: in the session of part_000, while the session is resting the rest
\* interval handleSetComplete has created is running, a step that lowers
\* restTimeLeft lowers it by 1, and every rest is left: the countdown
\* reaches 0 and ends the rest, Skip Rest or not.
C30_State ==
  (session.mounted /\ session.isResting) => session.restTimerRef = "running"

C30_Step ==
  (SameSession /\ session.isResting /\ session'.restTimeLeft < session.restTimeLeft) =>
    session'.restTimeLeft = session.restTimeLeft - 1

C30_RestRuns ==
  /\ [](C30_State)
  /\ [][C30_Step]_vars
  /\ (session.mounted /\ session.isResting) ~> ~(session.mounted /\ session.isResting)

====
